---- MODULE Spec2Model ----
(***************************************************************************)
(* The report-ingestion pipeline of convex/ingest.ts (the action variant   *)
(* of ingestReport with its four internal mutations) together with the     *)
(* key derivation of scripts/ingest_report.js.                             *)
(*                                                                         *)
(* Representation.                                                         *)
(*  - A string value is a sequence of character tokens, so that            *)
(*    toLowerCase, trim and join act on characters.  Column names and      *)
(*    report, table and source names are atomic strings.                   *)
(*  - A JS object Record<string,string> is a sequence of <<column, value>> *)
(*    pairs in insertion order with no column repeated.                    *)
(*  - A Convex table is the sequence of its documents in creation order;   *)
(*    .first() on an index is the earliest created match.                  *)
(*  - A Convex mutation is a serializable transaction: each mutation       *)
(*    handler is one atomic step.  An action (ingestReport) is a process   *)
(*    that runs its mutations one after another; mutations of concurrent   *)
(*    actions interleave.                                                  *)
(*  - sha256 is taken to be injective: a digest is its preimage.           *)
(***************************************************************************)
EXTENDS Integers, Sequences, FiniteSets, TLC

(***************************************************************************)
(* Bounds of the model.                                                    *)
(***************************************************************************)
\* ingestReport calls started in one behaviour
MaxCalls == 2
\* rows in one ingestReport call
MaxRows == 2
\* capturedAt values are 1..MaxTime
MaxTime == 2
\* CHUNK_SIZE and CLEAR_LIMIT are 200 in the source (ingest.ts:69-70); they
\* are scaled down so that chunk boundaries fall inside the bounded batches.
\* A run with larger chunks is a run with chunks of one row in which nothing
\* else happens between the rows of a chunk.
CHUNK_SIZE == 1
CLEAR_LIMIT == 2

Procs == {1, 2}
SourceKeys == {"s1", "s2"}
Times == 1..MaxTime

(***************************************************************************)
(* Strings and JS objects.                                                 *)
(***************************************************************************)
\* the value of a missing property
Undefined == <<"undefined">>

\* String.prototype.toLowerCase, per character
LowerChar(c) == IF c = "P" THEN "p" ELSE IF c = "Q" THEN "q" ELSE c
\* (variant: the letters keep their case)
toLowerCaseKeepsCase(s) == s
toLowerCase(s) == [i \in 1..Len(s) |-> LowerChar(s[i])]

\* String.prototype.trim
RECURSIVE TrimLeft(_)
TrimLeft(s) == IF s # <<>> /\ Head(s) = " " THEN TrimLeft(Tail(s)) ELSE s
RECURSIVE TrimRight(_)
TrimRight(s) ==
    IF s # <<>> /\ s[Len(s)] = " " THEN TrimRight(SubSeq(s, 1, Len(s) - 1)) ELSE s
trim(s) == TrimRight(TrimLeft(s))

\* JS truthiness of a string-or-undefined
Truthy(v) == v # Undefined /\ v # <<>>

HasKey(record, col) == \E i \in 1..Len(record) : record[i][1] = col
\* record[col]
Get(record, col) ==
    IF HasKey(record, col)
    THEN record[CHOOSE i \in 1..Len(record) : record[i][1] = col][2]
    ELSE Undefined
\* delete record[col]
Delete(record, col) == SelectSeq(record, LAMBDA e : e[1] # col)
\* record[col] = value
Put(record, col, value) ==
    IF HasKey(record, col)
    THEN [i \in 1..Len(record) |->
            IF record[i][1] = col THEN <<col, value>> ELSE record[i]]
    ELSE Append(record, <<col, value>>)

\* Array.prototype.sort() on the column names of the model: UTF-16 code unit
\* order, listed here as the sorted sequence.
SortedColumns ==
    << "Account Number", "Appointment type", "Appt. date", "ID", "Location",
       "Patient", "Patient ID", "Provider", "Reference #", "Status",
       "__uniqueKey" >>
\* Object.keys(record).sort()
SortedKeys(record) ==
    LET present == {record[i][1] : i \in 1..Len(record)}
    IN  SelectSeq(SortedColumns, LAMBDA c : c \in present)

\* canonicalize: the record rebuilt with its keys sorted, then JSON.stringify
\* (injective on the ordered list of entries).
\* (variant: the keys are not sorted before JSON.stringify)
canonicalizeUnsorted(record) == record
canonicalize(record) ==
    LET ks == SortedKeys(record)
    IN  [i \in 1..Len(ks) |-> <<ks[i], Get(record, ks[i])>>]

RECURSIVE Join(_, _)
\* Array.prototype.join(sep) of a sequence of strings
Join(parts, sep) ==
    IF parts = <<>> THEN <<>>
    ELSE IF Len(parts) = 1 THEN parts[1]
    ELSE parts[1] \o sep \o Join(Tail(parts), sep)

(***************************************************************************)
(* scripts/ingest_report.js: report configuration and key derivation.      *)
(***************************************************************************)
Appointments == "Referral Source - Appointments"
Recalls == "Patient Recalls"
ReportNames == {Appointments, Recalls}

\* REPORT_CONFIG[reportName].uniqueKeyColumns (<<>> for null)
\* (variants: no report has natural-key columns; every report has them)
uniqueKeyColumnsFullRow(reportName) == <<>>
uniqueKeyColumnsAlwaysNatural(reportName) ==
    <<"Location", "Patient ID", "Appt. date", "Appointment type", "Provider">>
uniqueKeyColumns(reportName) ==
    IF reportName = Appointments
    THEN <<"Location", "Patient ID", "Appt. date", "Appointment type", "Provider">>
    ELSE <<>>

\* crypto.createHash("sha256").update(m).digest("hex"), taken to be injective;
\* a digest is never the empty string.
sha256(material) == <<"#">> \o material

\* record[column] || ""
OrEmpty(v) == IF Truthy(v) THEN v ELSE <<>>

buildUniqueKey(reportName, record) ==
    LET cols == uniqueKeyColumns(reportName)
    IN  IF Len(cols) > 0
        THEN sha256(Join(<< <<reportName>> >> \o
                         [i \in 1..Len(cols) |->
                            toLowerCase(OrEmpty(Get(record, cols[i])))],
                         <<"|">>))
        ELSE LET ks == SortedKeys(record)
             IN  sha256(Join([i \in 1..Len(ks) |->
                                <<ks[i], "=">> \o Get(record, ks[i])],
                             <<"|">>))

\* the data of one payload row as main() builds it: the sanitized CSV record
\* with record.__uniqueKey = buildUniqueKey(record)
ScriptRowData(reportName, record) ==
    Put(record, "__uniqueKey", buildUniqueKey(reportName, record))

(***************************************************************************)
(* Inputs.  CSV records after sanitizeKey/sanitizeValue.                   *)
(***************************************************************************)
RecA == << <<"Patient ID", <<"p">>>>, <<"Status", <<"x">>>> >>
\* RecA with one non-key column changed
RecB == << <<"Patient ID", <<"p">>>>, <<"Status", <<"y">>>> >>
\* RecA with its columns in another order
RecC == << <<"Status", <<"x">>>>, <<"Patient ID", <<"p">>>> >>
CsvRecords == {RecA, RecB}

\* The rows of a call are built by the script, each with its __uniqueKey, or
\* are sent to the action directly, none with a __uniqueKey.
RowData(reportName) == {ScriptRowData(reportName, r) : r \in CsvRecords}
\* rows: payload.rows, rowIndex being the 0-based position
Batches(reportName) ==
    UNION {[1..n -> RowData(reportName)] : n \in 0..MaxRows}
        \cup UNION {[1..n -> {RecA}] : n \in 1..MaxRows}
MakeRows(batch) == [i \in 1..Len(batch) |-> [rowIndex |-> i - 1, data |-> batch[i]]]

TableNames == {"appointments", "patientRecalls", "activePatients", "salesByIncomeAccount"}

(***************************************************************************)
(* convex/ingest.ts: helpers.                                              *)
(***************************************************************************)
PATIENT_ID_KEYS == <<"Patient ID", "Patient", "Account Number", "ID", "Reference #">>
ACTIVE_PATIENT_KEYS == <<"Patient", "Patient ID", "Account Number", "ID", "Reference #">>

RECURSIVE FirstTrimmed(_, _)
FirstTrimmed(keys, record) ==
    IF keys = <<>> THEN Undefined
    ELSE LET value == Get(record, Head(keys))
         IN  IF Truthy(value) /\ trim(value) # <<>>
             THEN trim(value)
             ELSE FirstTrimmed(Tail(keys), record)

\* (variant: every table takes the order of PATIENT_ID_KEYS)
extractPatientIdForTableOneOrder(tableName, record) ==
    FirstTrimmed(PATIENT_ID_KEYS, record)
extractPatientIdForTable(tableName, record) ==
    FirstTrimmed(IF tableName = "activePatients"
                 THEN ACTIVE_PATIENT_KEYS ELSE PATIENT_ID_KEYS, record)

\* a variant of chunkRows that keeps the first chunk only
chunkRowsFirstOnly(rows, size) ==
    IF Len(rows) = 0 THEN <<>>
    ELSE <<SubSeq(rows, 1, IF size < Len(rows) THEN size ELSE Len(rows))>>

\* chunkRows(rows, size)
chunkRows(rows, size) ==
    [c \in 1..((Len(rows) + size - 1) \div size) |->
        SubSeq(rows, (c - 1) * size + 1,
               IF c * size < Len(rows) THEN c * size ELSE Len(rows))]

ZeroStats == [inserted |-> 0, updated |-> 0, unchanged |-> 0]
\* a variant of mergeStats that keeps the stats of the last chunk only
mergeStatsOverwrite(target, delta) == delta
mergeStats(target, delta) ==
    [inserted |-> target.inserted + delta.inserted,
     updated |-> target.updated + delta.updated,
     unchanged |-> target.unchanged + delta.unchanged]

\* positions of the documents of a table that satisfy Test, in creation order
Matching(table, Test(_)) == {i \in 1..Len(table) : Test(table[i])}
Min(S) == CHOOSE i \in S : \A j \in S : i <= j
RemoveAt(table, S) ==
    LET F[i \in 0..Len(table)] ==
            IF i = 0 THEN <<>>
            ELSE IF i \in S THEN F[i - 1] ELSE Append(F[i - 1], table[i])
    IN  F[Len(table)]

(***************************************************************************)
(* convex/ingest.ts: the internal mutations, as functions of the tables    *)
(* they read and write.                                                    *)
(***************************************************************************)
\* createIngestion: patch the Ingestion of the sourceKey, or insert one
\* (variant: the by_source lookup is skipped)
createIngestionAlwaysInsert(ings, reportName, capturedAt, sourceKey) ==
    [ingestions |-> Append(ings, [_id |-> Len(ings) + 1, reportName |-> reportName,
                                  capturedAt |-> capturedAt, sourceKey |-> sourceKey,
                                  rowCount |-> 0]),
     ingestionId |-> Len(ings) + 1, replaced |-> FALSE]
createIngestion(ings, reportName, capturedAt, sourceKey) ==
    LET found == Matching(ings, LAMBDA d : d.sourceKey = sourceKey)
    IN  IF found # {}
        THEN LET e == Min(found)
             IN  [ingestions |-> [ings EXCEPT ![e].reportName = reportName,
                                              ![e].capturedAt = capturedAt,
                                              ![e].rowCount = 0],
                  ingestionId |-> ings[e]._id, replaced |-> TRUE]
        ELSE [ingestions |-> Append(ings, [_id |-> Len(ings) + 1,
                                           reportName |-> reportName,
                                           capturedAt |-> capturedAt,
                                           sourceKey |-> sourceKey,
                                           rowCount |-> 0]),
              ingestionId |-> Len(ings) + 1, replaced |-> FALSE]

\* clearRowsBatch: delete the first `limit` ReportRows of the Ingestion
\* (variant: the first ReportRow of the Ingestion is never taken)
clearRowsBatchKeepsOne(rrows, ingestionId, limit) ==
    LET found == Matching(rrows, LAMBDA d : d.ingestionId = ingestionId)
        taken == {i \in found : Cardinality({j \in found : j <= i}) <= limit
                                /\ i # Min(found)}
    IN  [reportRows |-> RemoveAt(rrows, taken), removed |-> Cardinality(taken)]
clearRowsBatch(rrows, ingestionId, limit) ==
    LET found == Matching(rrows, LAMBDA d : d.ingestionId = ingestionId)
        taken == {i \in found : Cardinality({j \in found : j <= i}) <= limit}
    IN  [reportRows |-> RemoveAt(rrows, taken), removed |-> Cardinality(taken)]

\* .withIndex("by_unique", q => q.eq("uniqueKey", uniqueKey)).first():
\* the position of the document, 0 for null
\* (variant: the lookup finds nothing)
FindExistingNever(table, uniqueKey) == 0
FindExisting(table, uniqueKey) ==
    LET found == Matching(table, LAMBDA d : d.uniqueKey = uniqueKey)
    IN  IF found = {} THEN 0 ELSE Min(found)

\* existingSignature !== incomingSignature
\* (variants: the signatures are never equal; they are taken unsorted)
ContentDiffersAlways(existingData, rowData) == TRUE
ContentDiffersUnsorted(existingData, rowData) ==
    canonicalizeUnsorted(existingData) # canonicalizeUnsorted(rowData)
ContentDiffers(existingData, rowData) ==
    canonicalize(existingData) # canonicalize(rowData)

\* the document inserted for a uniqueKey seen for the first time
NewDoc(uniqueKey, patientIdValue, rowData, a) ==
    [uniqueKey |-> uniqueKey, reportName |-> a.reportName,
     patientId |-> patientIdValue, data |-> rowData,
     firstCapturedAt |-> a.capturedAt, lastCapturedAt |-> a.capturedAt,
     lastIngestionId |-> a.ingestionId]

\* the patch of a document whose content differs
\* (variant: the patch also writes firstCapturedAt)
PatchChangedResetsFirst(existing, patientIdValue, rowData, a) ==
    [existing EXCEPT !.reportName = a.reportName, !.patientId = patientIdValue,
                     !.data = rowData, !.firstCapturedAt = a.capturedAt,
                     !.lastCapturedAt = a.capturedAt,
                     !.lastIngestionId = a.ingestionId]
PatchChanged(existing, patientIdValue, rowData, a) ==
    [existing EXCEPT !.reportName = a.reportName, !.patientId = patientIdValue,
                     !.data = rowData, !.lastCapturedAt = a.capturedAt,
                     !.lastIngestionId = a.ingestionId]

\* the patch of a document whose content is the same
\* (variant: the record is not patched)
PatchUnchangedNoTouch(existing, patientIdValue, a) == existing
PatchUnchanged(existing, patientIdValue, a) ==
    [existing EXCEPT !.reportName = a.reportName,
                     !.patientId = IF patientIdValue # Undefined
                                   THEN patientIdValue ELSE existing.patientId,
                     !.lastCapturedAt = a.capturedAt,
                     !.lastIngestionId = a.ingestionId]

\* one iteration of the loop of processRowsBatch over args.rows;
\* st = [reportRows, table, stats]
ProcessRow(st, row, a) ==
    LET uniqueKey == Get(row.data, "__uniqueKey")
        rowData == IF Truthy(uniqueKey) THEN Delete(row.data, "__uniqueKey")
                   ELSE row.data
        patientIdValue == extractPatientIdForTable(a.targetTable, rowData)
        rr == Append(st.reportRows,
                     [ingestionId |-> a.ingestionId, reportName |-> a.reportName,
                      rowIndex |-> row.rowIndex, data |-> rowData])
        e == FindExisting(st.table, uniqueKey)
    IN  IF ~Truthy(uniqueKey)
        THEN [st EXCEPT !.reportRows = rr]
        ELSE IF e = 0
        THEN [reportRows |-> rr,
              table |-> Append(st.table,
                               NewDoc(uniqueKey, patientIdValue, rowData, a)),
              stats |-> [st.stats EXCEPT !.inserted = @ + 1]]
        ELSE IF ContentDiffers(st.table[e].data, rowData)
        THEN [reportRows |-> rr,
              table |-> [st.table EXCEPT
                           ![e] = PatchChanged(@, patientIdValue, rowData, a)],
              stats |-> [st.stats EXCEPT !.updated = @ + 1]]
        ELSE [reportRows |-> rr,
              table |-> [st.table EXCEPT
                           ![e] = PatchUnchanged(@, patientIdValue, a)],
              stats |-> [st.stats EXCEPT !.unchanged = @ + 1]]

\* (variant: the table is rebuilt from the rows of the batch)
processRowsBatchRebuilds(rrows, table, a) ==
    LET F[i \in 0..Len(a.rows)] ==
            IF i = 0
            THEN [reportRows |-> rrows, table |-> <<>>, stats |-> ZeroStats]
            ELSE ProcessRow(F[i - 1], a.rows[i], a)
    IN  F[Len(a.rows)]
\* processRowsBatch for a targetTable of TABLE_CONFIG: the loop over args.rows
\* and the returned stats
processRowsBatch(rrows, table, a) ==
    LET F[i \in 0..Len(a.rows)] ==
            IF i = 0
            THEN [reportRows |-> rrows, table |-> table, stats |-> ZeroStats]
            ELSE ProcessRow(F[i - 1], a.rows[i], a)
    IN  F[Len(a.rows)]

\* finalizeIngestion: patch capturedAt and rowCount
\* (variant: rowCount is not patched)
finalizeIngestionKeepsRowCount(ings, ingestionId, capturedAt, rowCount) ==
    [i \in 1..Len(ings) |->
        IF ings[i]._id = ingestionId
        THEN [ings[i] EXCEPT !.capturedAt = capturedAt] ELSE ings[i]]
finalizeIngestion(ings, ingestionId, capturedAt, rowCount) ==
    [i \in 1..Len(ings) |->
        IF ings[i]._id = ingestionId
        THEN [ings[i] EXCEPT !.capturedAt = capturedAt, !.rowCount = rowCount]
        ELSE ings[i]]

(***************************************************************************)
(* State.                                                                  *)
(***************************************************************************)
VARIABLES
    ingestions,   \* table ingestions: documents [_id, reportName, capturedAt, sourceKey, rowCount]
    reportRows,   \* table reportRows: documents [ingestionId, reportName, rowIndex, data]
    canon,        \* the canonical tables, by table name
    pc,           \* per ingestReport action: where its handler stands
    args,         \* per action: the arguments of its current or last call
    prep,         \* per action: the result of createIngestion
    stats,        \* per action: the stats accumulated by mergeStats
    chunkIdx,     \* per action: chunks passed to processRowsBatch so far
    calls,        \* ingestReport calls started
    pre,          \* history: per action, the target table when its call started
    lastEnded,    \* history: the action whose call ended last (0: none)
    after,        \* history: per action, lastEnded when its call started
    justEnded,    \* history: the action whose call returned in the last step (0: none)
    overlapped,   \* history: per action, whether a call of the same sourceKey ran during its call
    alone,        \* history: per action, whether no other call ran during its call
    origin,       \* history: the database when an interrupted call started (<<>>: none)
    argv,         \* the command line of the last run of scripts/ingest_report.js (<<>>: none)
    now,          \* the clock read by new Date(), in hours
    scoreInputs,  \* the ScoreInputs of the last calculatePhScore call (<<>>: none)
    score,        \* the PatientHealthScore it returned (<<>>: none)
    fnArgs,       \* the arguments of the last call of a helper function (<<>>: none)
    fnResult,     \* what that call returned (<<>>: none)
    backend,      \* the messaging implementation in service ("": not called yet)
    threads,      \* table messageThreads: documents [_id, normalizedPhone, ...]
    messages,     \* table messages: documents [threadId, direction, status, ...]
    caller,       \* per messaging caller: the function it runs and where it stands
    bulk          \* the sendBulkReminders call: its recipients, position and results

\* the state of the ingestion pipeline
pipelineVars == <<ingestions, reportRows, canon, pc, args, prep, stats, chunkIdx,
                  calls, pre, lastEnded, after, justEnded, overlapped, alone>>
\* the state of the ingest script and of an interrupted run
scriptVars == <<origin, argv>>
\* the state of the scorer
scoreVars == <<now, scoreInputs, score>>
\* the last call of a helper function
fnVars == <<fnArgs, fnResult>>
\* the state of messaging
msgVars == <<backend, threads, messages, caller, bulk>>
vars == <<pipelineVars, scriptVars, scoreVars, fnVars, msgVars>>

\* the callers of the messaging functions, and a caller or a bulk send at rest
Callers == {1, 2}
NoMsgArgs == [phoneNumber |-> <<>>, patientId |-> Undefined]
Idle == [fn |-> "", pc |-> "idle", a |-> NoMsgArgs, found |-> 0, calls |-> 0]
NoBulk == [pc |-> "idle", recipients |-> <<>>, i |-> 0, results |-> <<>>,
           threadId |-> 0, found |-> 0, sms |-> ""]

NoArgs == [reportName |-> "", capturedAt |-> 0, sourceKey |-> "",
           targetTable |-> "", rows |-> <<>>]

Running(p) == pc[p] \in {"clear", "process", "finalize"}

\* argv.table || baseConfig.targetTable
ConfigTable(reportName) ==
    IF reportName = Appointments THEN "appointments" ELSE "patientRecalls"

\* the calls of the model: a report sent to the table of its configuration,
\* and the full-row report sent to a table outside TABLE_CONFIG (--table) with
\* no row or one row
Targets == {<<r, ConfigTable(r)>> : r \in ReportNames} \cup {<<Recalls, "unknownTable">>}
TargetBatches(rt) ==
    IF rt[2] \in TableNames THEN Batches(rt[1])
    ELSE {b \in Batches(rt[1]) : Len(b) <= 1}
Inputs ==
    UNION {{[reportName |-> rt[1], capturedAt |-> t, sourceKey |-> s,
             targetTable |-> rt[2], rows |-> MakeRows(b)] :
               t \in Times, s \in SourceKeys, b \in TargetBatches(rt)} :
           rt \in Targets}

\* where the handler goes once the old ReportRows are cleared: the loop over
\* chunkRows(args.rows, CHUNK_SIZE), or finalizeIngestion when there is no chunk
AfterClear(a) == IF Len(chunkRows(a.rows, CHUNK_SIZE)) = 0 THEN "finalize" ELSE "process"

\* the arguments processRowsBatch gets for one chunk of a call
BatchArgs(a, ingestionId, chunk) ==
    [ingestionId |-> ingestionId, reportName |-> a.reportName,
     capturedAt |-> a.capturedAt, targetTable |-> a.targetTable, rows |-> chunk]

\* The database is empty, or is what one earlier ingestion left: the export
\* Seed, ingested to completion into the empty database.
Seed == [reportName |-> Appointments, capturedAt |-> 1, sourceKey |-> "s1",
         targetTable |-> "appointments",
         rows |-> MakeRows(<<ScriptRowData(Appointments, RecC)>>)]
SeedIngestions ==
    finalizeIngestion(
        createIngestion(<<>>, Seed.reportName, Seed.capturedAt, Seed.sourceKey).ingestions,
        1, Seed.capturedAt, Len(Seed.rows))
SeedBatch == processRowsBatch(<<>>, <<>>, BatchArgs(Seed, 1, Seed.rows))

Init ==
    /\ \/ /\ ingestions = <<>>
          /\ reportRows = <<>>
          /\ canon = [t \in TableNames |-> <<>>]
       \/ /\ ingestions = SeedIngestions
          /\ reportRows = SeedBatch.reportRows
          /\ canon = [t \in TableNames |->
                        IF t = Seed.targetTable THEN SeedBatch.table ELSE <<>>]
    /\ pc = [p \in Procs |-> "idle"]
    /\ args = [p \in Procs |-> NoArgs]
    /\ prep = [p \in Procs |-> [ingestionId |-> 0, replaced |-> FALSE]]
    /\ stats = [p \in Procs |-> ZeroStats]
    /\ chunkIdx = [p \in Procs |-> 0]
    /\ calls = 0
    /\ pre = [p \in Procs |-> <<>>]
    /\ lastEnded = 0
    /\ after = [p \in Procs |-> 0]
    /\ justEnded = 0
    /\ overlapped = [p \in Procs |-> FALSE]
    /\ alone = [p \in Procs |-> TRUE]
    /\ origin = <<>>
    /\ argv = <<>>
    /\ now = 0
    /\ scoreInputs = <<>>
    /\ score = <<>>
    /\ fnArgs = <<>>
    /\ fnResult = <<>>
    /\ backend = ""
    /\ threads = <<>>
    /\ messages = <<>>
    /\ caller = [c \in Callers |-> Idle]
    /\ bulk = NoBulk

(***************************************************************************)
(* ingestReport (action), one step per mutation it runs.                   *)
(***************************************************************************)
\* the call with arguments a and its first mutation, createIngestion
CreateStep(p, a) ==
    /\ LET r == createIngestion(ingestions, a.reportName, a.capturedAt, a.sourceKey)
       IN  /\ ingestions' = r.ingestions
           /\ prep' = [prep EXCEPT ![p] = [ingestionId |-> r.ingestionId,
                                           replaced |-> r.replaced]]
           /\ pc' = [pc EXCEPT ![p] = IF r.replaced THEN "clear" ELSE AfterClear(a)]
    /\ args' = [args EXCEPT ![p] = a]
    /\ stats' = [stats EXCEPT ![p] = ZeroStats]
    /\ chunkIdx' = [chunkIdx EXCEPT ![p] = 0]
    /\ calls' = calls + 1
    /\ pre' = [pre EXCEPT ![p] = IF a.targetTable \in TableNames
                                 THEN canon[a.targetTable] ELSE <<>>]
    /\ after' = [after EXCEPT ![p] = lastEnded]
    /\ overlapped' =
         [q \in Procs |->
            IF q = p
            THEN \E o \in Procs \ {p} : Running(o) /\ args[o].sourceKey = a.sourceKey
            ELSE overlapped[q] \/ (Running(q) /\ args[q].sourceKey = a.sourceKey)]
    /\ alone' =
         [q \in Procs |->
            IF q = p THEN \A o \in Procs \ {p} : ~Running(o)
            ELSE alone[q] /\ ~Running(q)]
    /\ justEnded' = 0
    /\ UNCHANGED <<reportRows, canon, lastEnded, scriptVars, scoreVars, fnVars, msgVars>>

\* Actions are interchangeable: action 1 is the first one called.
StartCall(p) ==
    /\ ~Running(p)
    /\ calls < MaxCalls
    /\ p = 1 \/ pc[1] # "idle"
    /\ \E a \in Inputs : CreateStep(p, a)

\* one turn of the while loop: clearRowsBatch, until it removes nothing
ClearStep(p) ==
    /\ pc[p] = "clear"
    /\ LET r == clearRowsBatch(reportRows, prep[p].ingestionId, CLEAR_LIMIT)
       IN  /\ reportRows' = r.reportRows
           /\ pc' = [pc EXCEPT ![p] = IF r.removed = 0 THEN AfterClear(args[p])
                                      ELSE "clear"]
    /\ justEnded' = 0
    /\ UNCHANGED <<ingestions, canon, args, prep, stats, chunkIdx, calls,
                   pre, lastEnded, after, overlapped, alone, scriptVars, scoreVars, fnVars, msgVars>>

\* one turn of the for loop: processRowsBatch on the next chunk
ProcessStep(p) ==
    /\ pc[p] = "process"
    /\ args[p].targetTable \in TableNames
    /\ LET chunks == chunkRows(args[p].rows, CHUNK_SIZE)
           r == processRowsBatch(reportRows, canon[args[p].targetTable],
                                 BatchArgs(args[p], prep[p].ingestionId,
                                           chunks[chunkIdx[p] + 1]))
       IN  /\ reportRows' = r.reportRows
           /\ canon' = [canon EXCEPT ![args[p].targetTable] = r.table]
           /\ stats' = [stats EXCEPT ![p] = mergeStats(@, r.stats)]
           /\ chunkIdx' = [chunkIdx EXCEPT ![p] = @ + 1]
           /\ pc' = [pc EXCEPT ![p] = IF chunkIdx[p] + 1 = Len(chunks)
                                      THEN "finalize" ELSE "process"]
    /\ justEnded' = 0
    /\ UNCHANGED <<ingestions, args, prep, calls, pre, lastEnded, after,
                   overlapped, alone, scriptVars, scoreVars, fnVars, msgVars>>

\* processRowsBatch throws "Unsupported target table" before any write; the
\* action rejects
ProcessFail(p) ==
    /\ pc[p] = "process"
    /\ args[p].targetTable \notin TableNames
    /\ pc' = [pc EXCEPT ![p] = "failed"]
    /\ lastEnded' = p
    /\ justEnded' = 0
    /\ UNCHANGED <<ingestions, reportRows, canon, args, prep, stats, chunkIdx,
                   calls, pre, after, overlapped, alone, scriptVars, scoreVars, fnVars, msgVars>>

\* finalizeIngestion, then the action returns {ingestionId, stats}
FinalizeStep(p) ==
    /\ pc[p] = "finalize"
    /\ ingestions' = finalizeIngestion(ingestions, prep[p].ingestionId,
                                       args[p].capturedAt, Len(args[p].rows))
    /\ pc' = [pc EXCEPT ![p] = "done"]
    /\ lastEnded' = p
    /\ justEnded' = p
    /\ UNCHANGED <<reportRows, canon, args, prep, stats, chunkIdx, calls,
                   pre, after, overlapped, alone, scriptVars, scoreVars, fnVars, msgVars>>

\* concurrent actions: their mutations interleave
Next ==
    \E p \in Procs :
        \/ StartCall(p)
        \/ ClearStep(p)
        \/ ProcessStep(p)
        \/ ProcessFail(p)
        \/ FinalizeStep(p)

Spec == Init /\ [][Next]_vars

(***************************************************************************)
(* ingestReport run by one caller at a time: the handler as a function of  *)
(* the database, of its arguments and of the chunk size.                   *)
(***************************************************************************)
SeqMaxRows == 3
SeqMaxCalls == 1

\* the database as it stands
DbNow == [ingestions |-> ingestions, reportRows |-> reportRows, canon |-> canon]

\* where the handler goes once the old ReportRows are cleared, chunks of size
AfterClearWith(a, size) ==
    IF Len(chunkRows(a.rows, size)) = 0 THEN "finalize" ELSE "process"

\* the handler after its first mutation, createIngestion
CallStart(db, a, size) ==
    LET r == createIngestion(db.ingestions, a.reportName, a.capturedAt, a.sourceKey)
    IN  [db |-> [db EXCEPT !.ingestions = r.ingestions],
         pc |-> IF r.replaced THEN "clear" ELSE AfterClearWith(a, size),
         ingestionId |-> r.ingestionId, replaced |-> r.replaced,
         stats |-> ZeroStats, chunkIdx |-> 0]

\* the next mutation of the handler: a turn of the clearRowsBatch loop, a turn
\* of the processRowsBatch loop (which throws for an unknown targetTable), or
\* finalizeIngestion
CallStep(m, a, size) ==
    CASE m.pc = "clear" ->
           LET r == clearRowsBatch(m.db.reportRows, m.ingestionId, CLEAR_LIMIT)
           IN  [m EXCEPT !.db.reportRows = r.reportRows,
                         !.pc = IF r.removed = 0 THEN AfterClearWith(a, size)
                                ELSE "clear"]
      [] m.pc = "process" /\ a.targetTable \notin TableNames ->
           [m EXCEPT !.pc = "failed"]
      [] m.pc = "process" /\ a.targetTable \in TableNames ->
           LET chunks == chunkRows(a.rows, size)
               r == processRowsBatch(m.db.reportRows, m.db.canon[a.targetTable],
                                     BatchArgs(a, m.ingestionId, chunks[m.chunkIdx + 1]))
           IN  [m EXCEPT !.db.reportRows = r.reportRows,
                         !.db.canon[a.targetTable] = r.table,
                         !.stats = mergeStats(@, r.stats),
                         !.chunkIdx = @ + 1,
                         !.pc = IF m.chunkIdx + 1 = Len(chunks)
                                THEN "finalize" ELSE "process"]
      [] m.pc = "finalize" ->
           [m EXCEPT !.db.ingestions =
                        finalizeIngestion(@, m.ingestionId, a.capturedAt, Len(a.rows)),
                     !.pc = "done"]
      [] OTHER -> m

\* the handler after at most n more mutations
RECURSIVE RunSteps(_, _, _, _)
RunSteps(m, a, size, n) ==
    IF n = 0 \/ m.pc \in {"done", "failed"} THEN m
    ELSE RunSteps(CallStep(m, a, size), a, size, n - 1)

\* no call runs more mutations than this
StepLimit(db, a) == Len(db.reportRows) + Len(a.rows) + 3

\* ingestReport run until it returns or rejects, with chunks of size
ingestReportWith(db, a, size) ==
    RunSteps(CallStart(db, a, size), a, size, StepLimit(db, a))

\* ingestReport stopped after n mutations
ingestReportPrefix(db, a, size, n) ==
    RunSteps(CallStart(db, a, size), a, size, n - 1)

SeqBatches(reportName) ==
    UNION {[1..n -> RowData(reportName)] : n \in 0..SeqMaxRows}
        \cup UNION {[1..n -> {RecA}] : n \in 1..SeqMaxRows}
SeqInputs ==
    UNION {{[reportName |-> rt[1], capturedAt |-> t, sourceKey |-> s,
             targetTable |-> rt[2], rows |-> MakeRows(b)] :
               t \in Times, s \in SourceKeys, b \in SeqBatches(rt[1])} :
           rt \in Targets}

\* the state the handler leaves
Leaves(m, a) ==
    /\ ingestions' = m.db.ingestions
    /\ reportRows' = m.db.reportRows
    /\ canon' = m.db.canon
    /\ args' = [args EXCEPT ![1] = a]
    /\ prep' = [prep EXCEPT ![1] = [ingestionId |-> m.ingestionId,
                                    replaced |-> m.replaced]]
    /\ stats' = [stats EXCEPT ![1] = m.stats]
    /\ chunkIdx' = [chunkIdx EXCEPT ![1] = m.chunkIdx]

\* a call of ingestReport, run until it returns or rejects
SeqRun ==
    /\ pc[1] # "stopped"
    /\ calls < SeqMaxCalls
    /\ \E a \in SeqInputs :
         LET m == ingestReportWith(DbNow, a, CHUNK_SIZE)
         IN  /\ Leaves(m, a)
             /\ pc' = [pc EXCEPT ![1] = m.pc]
    /\ calls' = calls + 1
    /\ origin' = <<>>
    /\ argv' = <<>>
    /\ UNCHANGED <<pre, lastEnded, after, justEnded, overlapped, alone, scoreVars, fnVars, msgVars>>

\* a call of ingestReport that stops after n of its mutations, before it
\* returns (the process running the action dies)
SeqStop ==
    /\ pc[1] # "stopped"
    /\ calls < SeqMaxCalls
    /\ \E a \in SeqInputs : \E n \in 1..StepLimit(DbNow, a) :
         LET m == ingestReportPrefix(DbNow, a, CHUNK_SIZE, n)
         IN  /\ m.pc \notin {"done", "failed"}
             /\ Leaves(m, a)
    /\ pc' = [pc EXCEPT ![1] = "stopped"]
    /\ calls' = calls + 1
    /\ origin' = <<DbNow>>
    /\ argv' = <<>>
    /\ UNCHANGED <<pre, lastEnded, after, justEnded, overlapped, alone, scoreVars, fnVars, msgVars>>

\* the stopped call is made again, with the same arguments, and runs until it
\* returns or rejects
SeqRerun ==
    /\ pc[1] = "stopped"
    /\ LET m == ingestReportWith(DbNow, args[1], CHUNK_SIZE)
       IN  /\ Leaves(m, args[1])
           /\ pc' = [pc EXCEPT ![1] = m.pc]
    /\ UNCHANGED <<calls, origin, pre, lastEnded, after, justEnded, overlapped,
                   alone, argv, scoreVars, fnVars, msgVars>>

(***************************************************************************)
(* scripts/ingest_report.js and the argument validators of the action.     *)
(***************************************************************************)
\* a JavaScript number: NaN, or a value
NaN == [nan |-> TRUE, value |-> 0]
Num(n) == [nan |-> FALSE, value |-> n]
isNaN(x) == x.nan

DigitChars == <<"0", "1", "2", "3", "4", "5", "6", "7", "8", "9">>
IsDigit(c) == \E d \in 1..Len(DigitChars) : DigitChars[d] = c
DigitValue(c) == (CHOOSE d \in 1..Len(DigitChars) : DigitChars[d] = c) - 1
\* the value of a decimal numeral
RECURSIVE Decimal(_)
Decimal(s) ==
    IF s = <<>> THEN 0
    ELSE 10 * Decimal(SubSeq(s, 1, Len(s) - 1)) + DigitValue(s[Len(s)])
\* Number(string) on strings of digits, letters, "-" and blanks: white space
\* is trimmed, the empty string is 0, a decimal numeral is its value, and
\* anything else is NaN
Number(s) ==
    LET t == trim(s)
    IN  IF t = <<>> THEN Num(0)
        ELSE IF \A i \in 1..Len(t) : IsDigit(t[i]) THEN Num(Decimal(t))
        ELSE NaN

NotANumber == <<"n", "o", "t", "-", "a", "-", "n", "u", "m", "b", "e", "r">>
\* the values of --capturedAt: not passed, empty, numerals, and a word
RawCapturedAt == {Undefined, <<>>, <<"2">>, <<"1", "2">>, NotANumber}
\* the command lines: --report, --source, --capturedAt, and the records of the
\* CSV file named by --file
CommandLines ==
    [report : ReportNames, source : SourceKeys, capturedAt : RawCapturedAt,
     records : {<<>>} \cup {<<r>> : r \in CsvRecords}]

\* capturedAt as the script computes it, clock being what Date.now() returns
ScriptCapturedAt(cmd, clock) ==
    IF cmd.capturedAt # Undefined THEN Number(cmd.capturedAt) ELSE Num(clock)
\* the payload the script sends to ingest:ingestReport
Payload(cmd, capturedAt) ==
    [reportName |-> cmd.report, capturedAt |-> capturedAt.value,
     sourceKey |-> cmd.source, targetTable |-> ConfigTable(cmd.report),
     rows |-> MakeRows([i \in 1..Len(cmd.records) |->
                           ScriptRowData(cmd.report, cmd.records[i])])]

\* a run of the script: it exits with status 1 when capturedAt is NaN, and
\* otherwise calls the action, which runs until it returns
Script ==
    /\ pc[1] # "stopped"
    /\ calls < SeqMaxCalls
    /\ \E cmd \in CommandLines : \E clock \in Times :
         LET capturedAt == ScriptCapturedAt(cmd, clock)
         IN  /\ argv' = <<cmd>>
             /\ IF isNaN(capturedAt)
                THEN /\ pc' = [pc EXCEPT ![1] = "exit1"]
                     /\ UNCHANGED <<ingestions, reportRows, canon, args, prep,
                                    stats, chunkIdx>>
                ELSE LET a == Payload(cmd, capturedAt)
                         m == ingestReportWith(DbNow, a, CHUNK_SIZE)
                     IN  /\ Leaves(m, a)
                         /\ pc' = [pc EXCEPT ![1] = m.pc]
    /\ calls' = calls + 1
    /\ origin' = <<>>
    /\ UNCHANGED <<pre, lastEnded, after, justEnded, overlapped, alone, scoreVars, fnVars, msgVars>>

\* a value of a request, with its JavaScript type
Str(s) == [type |-> "string", value |-> s]
\* v.number()
v_number(x) == x.type = "number"
\* requests sent to the action with a string for capturedAt
StringRequests ==
    {[a EXCEPT !.capturedAt = Str(raw)] :
        a \in {i \in SeqInputs : Len(i.rows) <= 1}, raw \in {<<"2">>, NotANumber}}
\* a request whose arguments do not pass the validators of ingestReport: the
\* handler does not run
InvalidRequest ==
    /\ pc[1] # "stopped"
    /\ calls < SeqMaxCalls
    /\ \E req \in StringRequests :
         /\ ~v_number(req.capturedAt)
         /\ args' = [args EXCEPT ![1] = req]
    /\ pc' = [pc EXCEPT ![1] = "invalid"]
    /\ calls' = calls + 1
    /\ origin' = <<>>
    /\ argv' = <<>>
    /\ UNCHANGED <<ingestions, reportRows, canon, prep, stats, chunkIdx, pre,
                   lastEnded, after, justEnded, overlapped, alone, scoreVars, fnVars, msgVars>>

SeqNext == SeqRun \/ SeqStop \/ SeqRerun \/ Script \/ InvalidRequest

SeqSpec == Init /\ [][SeqNext]_vars

(***************************************************************************)
(* convex/patientScore.ts: calculatePhScore.                               *)
(*                                                                         *)
(* Time is counted in hours. Points, weights and contributions are taken   *)
(* exactly; contributions and the total are kept in hundredths (44.50 is   *)
(* 4450). Every contribution is a multiple of 0.05, so the binary floating *)
(* point of the code is nowhere near a rounding boundary of toFixed(2).    *)
(***************************************************************************)
MS_PER_DAY == 24   \* 24 * 60 * 60 * 1000 ms
MaxClock == 48
TickHours == 12
MaxScoreCalls == 1

Null == [null |-> TRUE]

\* a variant of weights with one weight for all
weightsAllTwenty == [age |-> 20, deviceAge |-> 20, appointments |-> 20,
                     recency |-> 20, benefit |-> 20, accountValue |-> 20]
weights == [age |-> 15, deviceAge |-> 25, appointments |-> 15, recency |-> 15,
            benefit |-> 10, accountValue |-> 20]

\* Math.max(0, Math.min(100, value))
clampToPoints(value) ==
    LET m == IF value < 100 THEN value ELSE 100
    IN  IF m > 0 THEN m ELSE 0

scoreAge(ageYears) ==
    IF ageYears = Null \/ isNaN(ageYears) THEN 50
    ELSE IF ageYears.value < 80 THEN 100
    ELSE IF ageYears.value < 90 THEN 80
    ELSE 50

\* a variant of scoreDeviceAge that gives the most points to the newest device
scoreDeviceAgeDescending(deviceAgeYears) ==
    IF deviceAgeYears = Null \/ isNaN(deviceAgeYears) THEN 50
    ELSE IF deviceAgeYears.value <= 1 THEN 100
    ELSE IF deviceAgeYears.value <= 3 THEN 90
    ELSE IF deviceAgeYears.value <= 5 THEN 50
    ELSE 10

scoreDeviceAge(deviceAgeYears) ==
    IF deviceAgeYears = Null \/ isNaN(deviceAgeYears) THEN 50
    ELSE IF deviceAgeYears.value <= 1 THEN 10
    ELSE IF deviceAgeYears.value <= 3 THEN 50
    ELSE IF deviceAgeYears.value <= 5 THEN 90
    ELSE 100

\* a variant of scoreAppointments that takes a missing count for no appointment
scoreAppointmentsNullAsNone(createdCount) ==
    IF createdCount = Null \/ isNaN(createdCount) THEN 20
    ELSE IF createdCount.value <= 0 THEN 20
    ELSE IF createdCount.value = 1 THEN 60
    ELSE IF createdCount.value <= 3 THEN 90
    ELSE 100

scoreAppointments(createdCount) ==
    IF createdCount = Null \/ isNaN(createdCount) THEN 40
    ELSE IF createdCount.value <= 0 THEN 20
    ELSE IF createdCount.value = 1 THEN 60
    ELSE IF createdCount.value <= 3 THEN 90
    ELSE 100

\* new Date() with setHours(0, 0, 0, 0): the last midnight before clock
Midnight(clock) == clock - (clock % MS_PER_DAY)
\* Math.round(x / MS_PER_DAY): the nearest integer, a half going up
RoundDays(x) == (2 * x + MS_PER_DAY) \div (2 * MS_PER_DAY)

\* the function reads the clock; it has no test for NaN, and with NaN every
\* comparison of diffDays is false
scoreRecency(lastCompletedMs, clock) ==
    IF lastCompletedMs = Null THEN 30
    ELSE IF isNaN(lastCompletedMs) THEN 10
    ELSE LET r == RoundDays(Midnight(clock) - lastCompletedMs.value)
             diffDays == IF r > 0 THEN r ELSE 0
         IN  IF diffDays <= 180 THEN 100
             ELSE IF diffDays <= 365 THEN 60
             ELSE IF diffDays <= 730 THEN 30
             ELSE 10

scoreBenefit(benefitAmount) ==
    IF benefitAmount = Null \/ isNaN(benefitAmount) THEN 50
    ELSE IF benefitAmount.value >= 2000 THEN 100
    ELSE IF benefitAmount.value > 0 THEN 30
    ELSE 50

\* a variant of scoreAccountValue whose thresholds belong to the lower band
scoreAccountValueInclusive(accountValue) ==
    IF accountValue = Null \/ isNaN(accountValue) THEN 40
    ELSE IF accountValue.value <= 1000 THEN 20
    ELSE IF accountValue.value <= 3000 THEN 60
    ELSE IF accountValue.value <= 6000 THEN 85
    ELSE 100

scoreAccountValue(accountValue) ==
    IF accountValue = Null \/ isNaN(accountValue) THEN 40
    ELSE IF accountValue.value < 1000 THEN 20
    ELSE IF accountValue.value < 3000 THEN 60
    ELSE IF accountValue.value < 6000 THEN 85
    ELSE 100

\* Number(x.toFixed(2)): x in ten-thousandths, the result in hundredths
toFixed2(x) == (x + 50) \div 100

\* (clamped / 100) * weight is clamped * weight * 100 ten-thousandths
component(points, weight) ==
    LET clamped == clampToPoints(points)
    IN  [points |-> clamped, weight |-> weight,
         contribution |-> toFixed2(clamped * weight * 100)]

calculatePhScore(inputs, clock) ==
    LET age == component(scoreAge(inputs.patientAgeYears), weights.age)
        deviceAge == component(scoreDeviceAge(inputs.deviceAgeYears),
                               weights.deviceAge)
        appointments == component(scoreAppointments(inputs.appointmentsCreated24M),
                                  weights.appointments)
        recency == component(scoreRecency(inputs.lastAppointmentCompletedMs, clock),
                             weights.recency)
        benefit == component(scoreBenefit(inputs.thirdPartyBenefitAmount),
                             weights.benefit)
        accountValueComp == component(scoreAccountValue(inputs.accountValue),
                                      weights.accountValue)
    IN  [total |-> toFixed2((age.contribution + deviceAge.contribution
                             + appointments.contribution + recency.contribution
                             + benefit.contribution + accountValueComp.contribution)
                            * 100),
         components |-> [age |-> age, deviceAge |-> deviceAge,
                         appointments |-> appointments, recency |-> recency,
                         benefit |-> benefit, accountValue |-> accountValueComp]]

\* ScoreInputs with every input missing
AllNull ==
    [patientAgeYears |-> Null, deviceAgeYears |-> Null,
     appointmentsCreated24M |-> Null, lastAppointmentCompletedMs |-> Null,
     thirdPartyBenefitAmount |-> Null, accountValue |-> Null]

\* a time so many days before time 0
DaysAgo(d) == Num(0 - d * MS_PER_DAY)

\* inputs with each value missing, or one value of each band
BandInputs ==
    [patientAgeYears : {Null, NaN, Num(70), Num(85), Num(95)},
     deviceAgeYears : {Null, Num(1), Num(4)},
     appointmentsCreated24M : {Null, Num(0), Num(2)},
     lastAppointmentCompletedMs :
         {Null, DaysAgo(100), Num(0 - 180 * MS_PER_DAY - 12), DaysAgo(1000)},
     thirdPartyBenefitAmount : {Null, Num(0), Num(500), Num(2500)},
     accountValue : {Null, Num(500), Num(7000)}]

\* the values of one input: a range, or the values next to each threshold
SignalValues ==
    [patientAgeYears |-> {Num(n) : n \in 0..100},
     deviceAgeYears |-> {Num(n) : n \in (0 - 1)..7},
     appointmentsCreated24M |-> {Num(n) : n \in (0 - 1)..5},
     lastAppointmentCompletedMs |->
         {DaysAgo(d) : d \in {0 - 2, 0, 1, 179, 180, 181, 364, 365, 366,
                              729, 730, 731, 1000}},
     thirdPartyBenefitAmount |-> {Num(n) : n \in {0 - 1, 0, 1, 1999, 2000, 2001}},
     accountValue |-> {Num(n) : n \in {0, 999, 1000, 2999, 3000, 5999, 6000}}]
Signals == DOMAIN SignalValues

\* inputs with one value given and the others missing
SweepInputs ==
    UNION {{[AllNull EXCEPT ![g] = v] : v \in SignalValues[g]} : g \in Signals}

\* the inputs of the calls
ScoreInputs == BandInputs \cup SweepInputs

\* time passes
Tick ==
    /\ now + TickHours <= MaxClock
    /\ now' = now + TickHours
    /\ UNCHANGED <<pipelineVars, scriptVars, fnVars, msgVars, scoreInputs, score>>

\* a call of calculatePhScore
Calculate ==
    /\ Len(score) < MaxScoreCalls
    /\ \E inputs \in ScoreInputs :
         /\ scoreInputs' = <<inputs>>
         /\ score' = <<calculatePhScore(inputs, now)>>
    /\ UNCHANGED <<pipelineVars, scriptVars, fnVars, msgVars, now>>

\* calculatePhScore is called again with the inputs of the last call
Recalculate ==
    /\ score # <<>>
    /\ Len(score) < MaxScoreCalls + 1
    /\ score' = Append(score, calculatePhScore(scoreInputs[1], now))
    /\ UNCHANGED <<pipelineVars, scriptVars, fnVars, msgVars, now, scoreInputs>>

ScoreNext == Tick \/ Calculate \/ Recalculate

ScoreSpec == Init /\ [][ScoreNext]_vars

(***************************************************************************)
(* ingestReport (mutation): the variant of convex/ingest.ts that does the  *)
(* whole ingestion in one mutation.                                        *)
(***************************************************************************)
LegacyMaxCalls == 2

\* the ids the database holds or refers to
UsedIds(db) ==
    {db.ingestions[i]._id : i \in 1..Len(db.ingestions)}
        \cup {db.reportRows[i].ingestionId : i \in 1..Len(db.reportRows)}
        \cup UNION {{db.canon[t][i].lastIngestionId : i \in 1..Len(db.canon[t])} :
                    t \in TableNames}
\* the id ctx.db.insert gives a new document: never the id of another document,
\* deleted ones included.  The documents of this mutation get the ids below
\* zero, those of createIngestion the ids above.
FreshId(db) == Min(UsedIds(db) \cup {0}) - 1

\* the handler: the Ingestion of the sourceKey and its ReportRows are deleted,
\* a new Ingestion and the rows of the call are inserted
ingestReportMutation(db, a) ==
    LET found == Matching(db.ingestions, LAMBDA d : d.sourceKey = a.sourceKey)
        existingId == db.ingestions[Min(found)]._id
        ingestionId == FreshId(db)
        keptRows == IF found = {} THEN db.reportRows
                    ELSE SelectSeq(db.reportRows, LAMBDA d : d.ingestionId # existingId)
        keptIngestions == IF found = {} THEN db.ingestions
                          ELSE RemoveAt(db.ingestions, {Min(found)})
    IN  [ingestions |-> Append(keptIngestions,
                               [_id |-> ingestionId, reportName |-> a.reportName,
                                capturedAt |-> a.capturedAt, sourceKey |-> a.sourceKey,
                                rowCount |-> Len(a.rows)]),
         reportRows |-> keptRows \o
                        [i \in 1..Len(a.rows) |->
                           [ingestionId |-> ingestionId, reportName |-> a.reportName,
                            rowIndex |-> a.rows[i].rowIndex, data |-> a.rows[i].data]],
         canon |-> db.canon,
         ingestionId |-> ingestionId]

\* the calls of the mutation: it takes no targetTable
LegacyInputs ==
    {[reportName |-> r, capturedAt |-> t, sourceKey |-> s, rows |-> MakeRows(b)] :
       r \in ReportNames, t \in Times, s \in SourceKeys, b \in Batches(Recalls)}

\* a call of the mutation
IngestReportMutation ==
    /\ calls < LegacyMaxCalls
    /\ \E a \in LegacyInputs :
         LET m == ingestReportMutation(DbNow, a)
         IN  /\ ingestions' = m.ingestions
             /\ reportRows' = m.reportRows
    /\ calls' = calls + 1
    /\ UNCHANGED <<canon, pc, args, prep, stats, chunkIdx, pre, lastEnded, after,
                   justEnded, overlapped, alone, scriptVars, scoreVars, fnVars, msgVars>>

LegacyNext == IngestReportMutation

LegacySpec == Init /\ [][LegacyNext]_vars

(***************************************************************************)
(* The helper functions called on their own: buildUniqueKey on two records *)
(* of one CSV file, extractPatientIdForTable on one record.                *)
(***************************************************************************)
\* a record of its entries, the columns whose value is Undefined left out
MakeRecord(entries) == SelectSeq(entries, LAMBDA e : e[2] # Undefined)

\* the values of a key column in the CSV records (Undefined: no such column)
KeyValues == {Undefined, <<>>, <<"p">>, <<"P">>, <<"q">>, <<"|">>, <<"p", "|">>}
KeyRecords ==
    {MakeRecord(<< <<"Location", l>>, <<"Patient ID", p>>, <<"Status", s>> >>) :
       l \in KeyValues, p \in KeyValues, s \in {<<"x">>, <<"y">>}}

\* rows.map(record => buildUniqueKey(record)) in main(), for a file of two records
BuildKeys ==
    /\ fnArgs = <<>>
    /\ \E reportName \in ReportNames : \E r1 \in KeyRecords : \E r2 \in KeyRecords :
         /\ fnArgs' = <<[fn |-> "buildUniqueKey", reportName |-> reportName,
                         records |-> <<r1, r2>>]>>
         /\ fnResult' = <<buildUniqueKey(reportName, r1),
                           buildUniqueKey(reportName, r2)>>
    /\ UNCHANGED <<pipelineVars, scriptVars, scoreVars, msgVars>>

\* the values of a candidate column in the rows processRowsBatch reads
IdValues == {Undefined, <<>>, <<" ">>, <<" ", "p", " ">>, <<"q">>}
IdRecords ==
    {MakeRecord(<< <<"Reference #", r>>, <<"Account Number", a>>,
                   <<"Patient", n>>, <<"Patient ID", p>> >>) :
       r \in {Undefined, <<"r">>}, a \in {Undefined, <<" ">>, <<"a", " ">>},
       n \in IdValues, p \in IdValues}

\* extractPatientIdForTable(args.targetTable, rowData) in processRowsBatch
ExtractPatientId ==
    /\ fnArgs = <<>>
    /\ \E tableName \in TableNames : \E record \in IdRecords :
         /\ fnArgs' = <<[fn |-> "extractPatientIdForTable", tableName |-> tableName,
                         record |-> record]>>
         /\ fnResult' = <<extractPatientIdForTable(tableName, record)>>
    /\ UNCHANGED <<pipelineVars, scriptVars, scoreVars, msgVars>>

FnNext == BuildKeys \/ ExtractPatientId

FnSpec == Init /\ [][FnNext]_vars

(***************************************************************************)
(* Messaging: the mutations and the action of convex/messaging.ts, and the *)
(* same functions of the dashboard on Prisma (unnamed/part_012).  Message  *)
(* bodies and times are left out.                                          *)
(***************************************************************************)
MsgMaxCalls == 1
MaxRecipients == 2

\* normalizePhone: null, or the digits with the country code 1 put before
\* ten digits
NoPhone == <<"null">>
normalizePhone(raw) ==
    LET digits == SelectSeq(raw, IsDigit)
    IN  IF raw = <<>> \/ digits = <<>> THEN NoPhone
        ELSE IF Len(digits) = 10 THEN <<"1">> \o digits
        ELSE digits

\* phone numbers as callers write them: two spellings of one number, another
\* number, and a string without digits
PhoneA == <<"5", "5", "5", "0", "1", "0", "0", "0", "0", "1">>
PhoneACountry == <<"+", "1">> \o PhoneA
PhoneB == <<"5", "5", "5", "0", "1", "0", "0", "0", "0", "2">>
PhoneNone == <<"n", "/", "a">>
RawPhones == {PhoneA, PhoneACountry, PhoneB, PhoneNone}
PatientIds == {Undefined, <<"7">>}
\* the arguments of ensureThread, of recordInboundMessage (which takes no
\* patientId) and the recipients of a bulk send
EnsureArgs == {[phoneNumber |-> ph, patientId |-> id] : ph \in RawPhones, id \in PatientIds}
InboundArgs == {[phoneNumber |-> ph, patientId |-> Undefined] : ph \in RawPhones}
BulkRecipients ==
    {[phoneNumber |-> ph, patientId |-> <<"7">>] : ph \in {PhoneA, PhoneB, PhoneNone}}

\* a ?? b
Coalesce(a, b) == IF a # Undefined THEN a ELSE b

\* the lookup of a thread by normalizedPhone (by_phone / findFirst): its
\* position, 0 for none
FindThread(ths, normalizedPhone) ==
    LET found == Matching(ths, LAMBDA d : d.normalizedPhone = normalizedPhone)
    IN  IF found = {} THEN 0 ELSE Min(found)

\* the thread inserted for a number
InsertThread(ths, normalizedPhone, phoneNumber, patientId) ==
    Append(ths, [_id |-> Len(ths) + 1, normalizedPhone |-> normalizedPhone,
                 displayPhone |-> phoneNumber, patientId |-> patientId,
                 lastOutboundStatus |-> Undefined])

\* ensureThread after its lookup: the thread found is patched, or one is inserted
ensureThreadWrite(ths, found, a) ==
    IF found # 0
    THEN [threads |-> [ths EXCEPT ![found].patientId = Coalesce(a.patientId, @)],
          threadId |-> ths[found]._id]
    ELSE [threads |-> InsertThread(ths, normalizePhone(a.phoneNumber),
                                   a.phoneNumber, a.patientId),
          threadId |-> Len(ths) + 1]
ensureThread(ths, a) ==
    ensureThreadWrite(ths, FindThread(ths, normalizePhone(a.phoneNumber)), a)

\* recordOutboundMessage: the message is inserted and the thread patched
recordOutboundMessage(ths, msgs, a) ==
    [messages |-> Append(msgs, [threadId |-> a.threadId, direction |-> "outbound",
                                status |-> a.status,
                                normalizedPhone |-> a.normalizedPhone,
                                patientId |-> a.patientId, error |-> a.error]),
     threads |-> [ths EXCEPT ![a.threadId].lastOutboundStatus = a.status]]

\* the message recordInboundMessage inserts on a thread
InboundMessage(thread, normalizedPhone) ==
    [threadId |-> thread._id, direction |-> "inbound", status |-> "received",
     normalizedPhone |-> normalizedPhone, patientId |-> thread.patientId,
     error |-> Undefined]
\* recordInboundMessage (mutation)
recordInboundMessage(ths, msgs, a) ==
    LET normalizedPhone == normalizePhone(a.phoneNumber)
        found == FindThread(ths, normalizedPhone)
        upserted == IF found = 0
                    THEN InsertThread(ths, normalizedPhone, a.phoneNumber, Undefined)
                    ELSE ths
        thread == upserted[IF found = 0 THEN Len(upserted) ELSE found]
    IN  [threads |-> upserted,
         messages |-> Append(msgs, InboundMessage(thread, normalizedPhone))]

AtRest(c) == caller[c].pc \in {"idle", "done", "failed"}
MayCall(c, b) == backend \in {"", b} /\ AtRest(c) /\ caller[c].calls < MsgMaxCalls
Called(c, fn, a, to) ==
    [fn |-> fn, pc |-> to, a |-> a, found |-> 0, calls |-> caller[c].calls + 1]

\* ensureThread (mutation), called by c
CxEnsureThread(c) ==
    /\ MayCall(c, "convex")
    /\ \E a \in EnsureArgs :
         IF normalizePhone(a.phoneNumber) = NoPhone
         THEN /\ caller' = [caller EXCEPT ![c] = Called(c, "ensureThread", a, "failed")]
              /\ threads' = threads
         ELSE /\ caller' = [caller EXCEPT ![c] = Called(c, "ensureThread", a, "done")]
              /\ threads' = ensureThread(threads, a).threads
    /\ backend' = "convex"
    /\ UNCHANGED <<messages, bulk, pipelineVars, scriptVars, scoreVars, fnVars>>

\* recordInboundMessage (mutation), called by c
CxRecordInbound(c) ==
    /\ MayCall(c, "convex")
    /\ \E a \in InboundArgs :
         IF normalizePhone(a.phoneNumber) = NoPhone
         THEN /\ caller' = [caller EXCEPT
                              ![c] = Called(c, "recordInboundMessage", a, "failed")]
              /\ UNCHANGED <<threads, messages>>
         ELSE /\ caller' = [caller EXCEPT
                              ![c] = Called(c, "recordInboundMessage", a, "done")]
              /\ threads' = recordInboundMessage(threads, messages, a).threads
              /\ messages' = recordInboundMessage(threads, messages, a).messages
    /\ backend' = "convex"
    /\ UNCHANGED <<bulk, pipelineVars, scriptVars, scoreVars, fnVars>>

\* Prisma: c calls ensureThread or recordInboundMessage, which normalizes the
\* number and awaits findFirst
PrFind(c) ==
    /\ MayCall(c, "prisma")
    /\ \E fn \in {"ensureThread", "recordInboundMessage"} :
       \E a \in IF fn = "ensureThread" THEN EnsureArgs ELSE InboundArgs :
         caller' = [caller EXCEPT ![c] =
            IF normalizePhone(a.phoneNumber) = NoPhone
            THEN Called(c, fn, a, "failed")
            ELSE [Called(c, fn, a, "found") EXCEPT
                    !.found = FindThread(threads, normalizePhone(a.phoneNumber))]]
    /\ backend' = "prisma"
    /\ UNCHANGED <<threads, messages, bulk, pipelineVars, scriptVars, scoreVars, fnVars>>

\* Prisma ensureThread: the update of the thread found, or the create
PrEnsureWrite(c) ==
    /\ caller[c].pc = "found"
    /\ caller[c].fn = "ensureThread"
    /\ threads' = ensureThreadWrite(threads, caller[c].found, caller[c].a).threads
    /\ caller' = [caller EXCEPT ![c].pc = "done"]
    /\ UNCHANGED <<backend, messages, bulk, pipelineVars, scriptVars, scoreVars, fnVars>>

\* Prisma recordInboundMessage: the create of the thread when none was found
PrInboundCreate(c) ==
    /\ caller[c].pc = "found"
    /\ caller[c].fn = "recordInboundMessage"
    /\ caller[c].found = 0
    /\ threads' = InsertThread(threads, normalizePhone(caller[c].a.phoneNumber),
                               caller[c].a.phoneNumber, Undefined)
    /\ caller' = [caller EXCEPT ![c].found = Len(threads) + 1]
    /\ UNCHANGED <<backend, messages, bulk, pipelineVars, scriptVars, scoreVars, fnVars>>

\* Prisma recordInboundMessage: the transaction that creates the message
PrInboundRecord(c) ==
    /\ caller[c].pc = "found"
    /\ caller[c].fn = "recordInboundMessage"
    /\ caller[c].found # 0
    /\ messages' = Append(messages,
                          InboundMessage(threads[caller[c].found],
                                         normalizePhone(caller[c].a.phoneNumber)))
    /\ caller' = [caller EXCEPT ![c].pc = "done"]
    /\ UNCHANGED <<backend, threads, bulk, pipelineVars, scriptVars, scoreVars, fnVars>>

(***************************************************************************)
(* sendBulkReminders.                                                      *)
(***************************************************************************)
\* what sendSms throws when the provider refuses the message
SmsFailed == "RingCentral SMS failed"
InvalidPhone == "Invalid phone number"
RecipientLists == UNION {[1..n -> BulkRecipients] : n \in 0..MaxRecipients}

Recipient == bulk.recipients[bulk.i]
Result(status, error) ==
    [patientId |-> Recipient.patientId, phoneNumber |-> Recipient.phoneNumber,
     status |-> status, error |-> error]
\* results.push(...), then the next recipient
Pushed(status, error) ==
    [bulk EXCEPT !.results = Append(@, Result(status, error)), !.i = @ + 1,
                 !.pc = "next", !.threadId = 0, !.found = 0, !.sms = ""]
AtRecipient ==
    /\ bulk.pc = "next"
    /\ bulk.i <= Len(bulk.recipients)

\* the call: no recipient is an error (the limit of 50 is out of the bounds)
BulkStart(b) ==
    /\ backend \in {"", b}
    /\ bulk.pc = "idle"
    /\ \E rs \in RecipientLists :
         bulk' = IF Len(rs) = 0 THEN [NoBulk EXCEPT !.pc = "failed"]
                 ELSE [NoBulk EXCEPT !.pc = "next", !.recipients = rs, !.i = 1]
    /\ backend' = b
    /\ UNCHANGED <<threads, messages, caller, pipelineVars, scriptVars, scoreVars, fnVars>>

\* a recipient whose number does not normalize
BulkInvalid ==
    /\ AtRecipient
    /\ normalizePhone(Recipient.phoneNumber) = NoPhone
    /\ bulk' = Pushed("failed", InvalidPhone)
    /\ UNCHANGED <<backend, threads, messages, caller, pipelineVars, scriptVars,
                   scoreVars, fnVars>>

\* Convex: ctx.runMutation("messaging:ensureThread")
CxBulkEnsure ==
    /\ backend = "convex"
    /\ AtRecipient
    /\ normalizePhone(Recipient.phoneNumber) # NoPhone
    /\ threads' = ensureThread(threads, Recipient).threads
    /\ bulk' = [bulk EXCEPT !.pc = "send",
                            !.threadId = ensureThread(threads, Recipient).threadId]
    /\ UNCHANGED <<backend, messages, caller, pipelineVars, scriptVars, scoreVars, fnVars>>

\* Convex: sendSms returns or throws
CxBulkSend ==
    /\ backend = "convex"
    /\ bulk.pc = "send"
    /\ \E outcome \in {"Queued", "failed"} :
         bulk' = [bulk EXCEPT !.pc = "record", !.sms = outcome]
    /\ UNCHANGED <<backend, threads, messages, caller, pipelineVars, scriptVars,
                   scoreVars, fnVars>>

\* Convex: recordOutboundMessage, in the try block or in the catch block
CxBulkRecord ==
    /\ backend = "convex"
    /\ bulk.pc = "record"
    /\ LET failed == bulk.sms = "failed"
           r == recordOutboundMessage(threads, messages,
                    [threadId |-> bulk.threadId, status |-> bulk.sms,
                     normalizedPhone |-> normalizePhone(Recipient.phoneNumber),
                     patientId |-> Recipient.patientId,
                     error |-> IF failed THEN SmsFailed ELSE Undefined])
       IN  /\ threads' = r.threads
           /\ messages' = r.messages
           /\ bulk' = IF failed THEN Pushed("failed", SmsFailed)
                      ELSE Pushed("sent", Undefined)
    /\ UNCHANGED <<backend, caller, pipelineVars, scriptVars, scoreVars, fnVars>>

\* Prisma: sendSms returns, or throws into the catch block, which pushes the
\* result
PrBulkSend ==
    /\ backend = "prisma"
    /\ AtRecipient
    /\ normalizePhone(Recipient.phoneNumber) # NoPhone
    /\ \E outcome \in {"Queued", "failed"} :
         bulk' = IF outcome = "failed" THEN Pushed("failed", SmsFailed)
                 ELSE [bulk EXCEPT !.pc = "ensure", !.sms = outcome]
    /\ UNCHANGED <<backend, threads, messages, caller, pipelineVars, scriptVars,
                   scoreVars, fnVars>>

\* Prisma: ensureThread awaits findFirst
PrBulkFind ==
    /\ bulk.pc = "ensure"
    /\ bulk' = [bulk EXCEPT !.pc = "write",
                            !.found = FindThread(threads,
                                                 normalizePhone(Recipient.phoneNumber))]
    /\ UNCHANGED <<backend, threads, messages, caller, pipelineVars, scriptVars,
                   scoreVars, fnVars>>

\* Prisma: ensureThread updates or creates
PrBulkWrite ==
    /\ bulk.pc = "write"
    /\ threads' = ensureThreadWrite(threads, bulk.found, Recipient).threads
    /\ bulk' = [bulk EXCEPT !.pc = "record",
                            !.threadId = ensureThreadWrite(threads, bulk.found,
                                                           Recipient).threadId]
    /\ UNCHANGED <<backend, messages, caller, pipelineVars, scriptVars, scoreVars, fnVars>>

\* Prisma: recordOutboundMessage
PrBulkRecord ==
    /\ backend = "prisma"
    /\ bulk.pc = "record"
    /\ LET r == recordOutboundMessage(threads, messages,
                    [threadId |-> bulk.threadId, status |-> bulk.sms,
                     normalizedPhone |-> normalizePhone(Recipient.phoneNumber),
                     patientId |-> Recipient.patientId, error |-> Undefined])
       IN  /\ threads' = r.threads
           /\ messages' = r.messages
           /\ bulk' = Pushed("sent", Undefined)
    /\ UNCHANGED <<backend, caller, pipelineVars, scriptVars, scoreVars, fnVars>>

\* the loop is over: the summary is returned
BulkReturn ==
    /\ bulk.pc = "next"
    /\ bulk.i > Len(bulk.recipients)
    /\ bulk' = [bulk EXCEPT !.pc = "done"]
    /\ UNCHANGED <<backend, threads, messages, caller, pipelineVars, scriptVars,
                   scoreVars, fnVars>>

MsgNext ==
    \/ \E c \in Callers : CxEnsureThread(c)
    \/ \E c \in Callers : CxRecordInbound(c)
    \/ \E c \in Callers : PrFind(c)
    \/ \E c \in Callers : PrEnsureWrite(c)
    \/ \E c \in Callers : PrInboundCreate(c)
    \/ \E c \in Callers : PrInboundRecord(c)
    \/ \E b \in {"convex", "prisma"} : BulkStart(b)
    \/ BulkInvalid
    \/ CxBulkEnsure
    \/ CxBulkSend
    \/ CxBulkRecord
    \/ PrBulkSend
    \/ PrBulkFind
    \/ PrBulkWrite
    \/ PrBulkRecord
    \/ BulkReturn

\* the messaging tables are apart from those of the ingestion, left empty here
MsgInit == Init /\ ingestions = <<>>

MsgSpec == MsgInit /\ [][MsgNext]_vars

(***************************************************************************)
(* Vocabulary of the properties.                                           *)
(***************************************************************************)
\* the __uniqueKey a row carries, and whether it carries one
RowKey(row) == Get(row.data, "__uniqueKey")
Keyed(row) == Truthy(RowKey(row))
\* the data of a row: its column mapping, the __uniqueKey field aside
RowColumns(row) == IF Keyed(row) THEN Delete(row.data, "__uniqueKey") ELSE row.data
KeyedCount(rows) == Cardinality({i \in 1..Len(rows) : Keyed(rows[i])})
Max(S) == CHOOSE i \in S : \A j \in S : j <= i
\* the last row of rows that carries the key k
LastWithKey(rows, k) == rows[Max({i \in 1..Len(rows) : RowKey(rows[i]) = k})]
\* positions of the records of a table with the key k
WithKey(table, k) == {e \in 1..Len(table) : table[e].uniqueKey = k}
\* the records of the table named t; there are none when t is no table
CanonOf(t) == IF t \in TableNames THEN canon[t] ELSE <<>>
\* positions of the Ingestions of a sourceKey
IngestionsOf(s) == {i \in 1..Len(ingestions) : ingestions[i].sourceKey = s}
\* the ReportRows an Ingestion owns, in creation order
OwnedRows(id) == SelectSeq(reportRows, LAMBDA d : d.ingestionId = id)
ColumnsOf(record) == {record[i][1] : i \in 1..Len(record)}
\* two column mappings over the same columns that differ in one value
DiffersInOne(x, y) ==
    /\ ColumnsOf(x) = ColumnsOf(y)
    /\ Cardinality({c \in ColumnsOf(x) : Get(x, c) # Get(y, c)}) = 1
SameContent(x, y) == canonicalize(x) = canonicalize(y)
Stats(i, u, n) == [inserted |-> i, updated |-> u, unchanged |-> n]

\* the call of p has just returned
Completed(p) == justEnded = p /\ pc[p] = "done"
\* the call of p has just returned and no other call ran during it
CompletedAlone(p) == Completed(p) /\ alone[p]
\* the last calls of p1 and p2 ran one after the other, p1 first, each to
\* completion with no other call running, and nothing has been called since
InARow(p1, p2) ==
    /\ p1 # p2
    /\ pc[p1] = "done" /\ pc[p2] = "done"
    /\ lastEnded = p2 /\ after[p2] = p1
    /\ alone[p1] /\ alone[p2]
\* a row as scripts/ingest_report.js sends it for the report
ScriptBuilt(reportName, row) ==
    Keyed(row) /\ RowKey(row) = buildUniqueKey(reportName, RowColumns(row))
\* a record stored from a row of the script for the report
StoredByScript(reportName, d) == d.uniqueKey = buildUniqueKey(reportName, d.data)

(***************************************************************************)
(* C1.  Two identical ingestReport calls in a row.                         *)
(***************************************************************************)
\* the second of two calls in a row with the same sourceKey, reportName,
\* targetTable and rows, every row carrying a __uniqueKey
C1_Case(p1, p2) ==
    /\ InARow(p1, p2)
    /\ args[p1].sourceKey = args[p2].sourceKey
    /\ args[p1].reportName = args[p2].reportName
    /\ args[p1].targetTable = args[p2].targetTable
    /\ args[p1].rows = args[p2].rows
    /\ \A i \in 1..Len(args[p2].rows) : Keyed(args[p2].rows[i])
C1_Idempotent(p2) ==
    /\ stats[p2] = Stats(0, 0, Len(args[p2].rows))
    /\ Len(CanonOf(args[p2].targetTable)) = Len(pre[p2])
\* rows of the batch that share a __uniqueKey have the same data
C1_KeysAgree(rows) ==
    \A i, j \in 1..Len(rows) :
        RowKey(rows[i]) = RowKey(rows[j])
            => SameContent(RowColumns(rows[i]), RowColumns(rows[j]))

\* C1 as stated: for every batch of N rows that each carry a __uniqueKey,
\* the second of two identical ingestReport calls in a row returns
\* {inserted: 0, updated: 0, unchanged: N} and leaves the number of records
\* of the target table unchanged.
C1_AsStated ==
    \A p1, p2 \in Procs : C1_Case(p1, p2) => C1_Idempotent(p2)

\* C1, amended: the same, for batches in which the rows that share a
\* __uniqueKey have identical data.
C1_SecondCallUnchanged ==
    \A p1, p2 \in Procs :
        C1_Case(p1, p2) /\ C1_KeysAgree(args[p2].rows) => C1_Idempotent(p2)

C1_Witness ==
    \E p1, p2 \in Procs :
        /\ C1_Case(p1, p2) /\ C1_KeysAgree(args[p2].rows)
        /\ Len(args[p2].rows) = MaxRows
        /\ stats[p2] = Stats(0, 0, MaxRows)
        /\ stats[p1].inserted > 0

(***************************************************************************)
(* C2.  One canonical effect per row that carries a __uniqueKey.           *)
(***************************************************************************)
\* the rows of the call of p handed to processRowsBatch so far
Processed(p) ==
    SubSeq(args[p].rows, 1, Min({Len(args[p].rows), chunkIdx[p] * CHUNK_SIZE}))
C2_Sum ==
    \A p \in Procs :
        stats[p].inserted + stats[p].updated + stats[p].unchanged
            = KeyedCount(Processed(p))
\* processRowsBatch of the action p runs in this step on a chunk of one row
OneRowStep(p) ==
    /\ pc[p] = "process"
    /\ chunkIdx'[p] = chunkIdx[p] + 1
    /\ Len(chunkRows(args[p].rows, CHUNK_SIZE)[chunkIdx[p] + 1]) = 1
StepRow(p) == chunkRows(args[p].rows, CHUNK_SIZE)[chunkIdx[p] + 1][1]
\* the effect of the step on the target table and on the stats of p
C2_Effect(p) ==
    LET t == args[p].targetTable
        row == StepRow(p)
        old == canon[t]
        new == canon'[t]
        found == WithKey(old, RowKey(row))
    IN  /\ \A u \in TableNames \ {t} : canon'[u] = canon[u]
        /\ IF ~Keyed(row)
           THEN new = old /\ stats'[p] = stats[p]
           ELSE IF found = {}
           THEN /\ Len(new) = Len(old) + 1
                /\ SubSeq(new, 1, Len(old)) = old
                /\ new[Len(new)].uniqueKey = RowKey(row)
                /\ new[Len(new)].data = RowColumns(row)
                /\ stats'[p] = [stats[p] EXCEPT !.inserted = @ + 1]
           ELSE /\ Len(new) = Len(old)
                /\ \A e \in 1..Len(old) : e \notin found => new[e] = old[e]
                /\ \A e \in found :
                     /\ new[e].uniqueKey = old[e].uniqueKey
                     /\ IF SameContent(old[e].data, RowColumns(row))
                        THEN /\ new[e].data = old[e].data
                             /\ stats'[p] = [stats[p] EXCEPT !.unchanged = @ + 1]
                        ELSE /\ new[e].data = RowColumns(row)
                             /\ stats'[p] = [stats[p] EXCEPT !.updated = @ + 1]

\* C2: every input row whose __uniqueKey is present causes exactly one
\* canonical effect (insert when no record has the key, update when the
\* key-sorted serialization of the stored data differs from the row's,
\* unchanged when it is equal), so inserted + updated + unchanged is the
\* number of rows carrying a __uniqueKey that were processed; a row without
\* one changes no canonical table and no count.
C2_OneEffectPerKeyedRow ==
    /\ []C2_Sum
    /\ [][\A p \in Procs : OneRowStep(p) => C2_Effect(p)]_vars

\* a call whose two rows were inserted and then updated has completed, and
\* so has a call whose rows carry no __uniqueKey
C2_Witness ==
    \E p, q \in Procs :
        /\ pc[p] = "done" /\ pc[q] = "done"
        /\ Len(args[p].rows) = 2 /\ KeyedCount(args[p].rows) = 2
        /\ stats[p] = Stats(1, 1, 0)
        /\ Len(args[q].rows) = 2 /\ KeyedCount(args[q].rows) = 0
        /\ stats[q] = Stats(0, 0, 0)

(***************************************************************************)
(* C3.  uniqueKey is unique within its table.                              *)
(***************************************************************************)
\* C3: in every reachable state each canonical table holds at most one
\* record per uniqueKey.
C3_UniqueKeyPerTable ==
    \A t \in TableNames :
        \A i, j \in 1..Len(canon[t]) :
            canon[t][i].uniqueKey = canon[t][j].uniqueKey => i = j

\* a call whose batch repeats a uniqueKey has completed; so has another call
\* with that key
C3_Witness ==
    \E p, q \in Procs :
        /\ p # q /\ pc[p] = "done" /\ pc[q] = "done"
        /\ args[p].targetTable = args[q].targetTable
        /\ Len(args[p].rows) = 2
        /\ Keyed(args[p].rows[1])
        /\ RowKey(args[p].rows[1]) = RowKey(args[p].rows[2])
        /\ \E i \in 1..Len(args[q].rows) :
               RowKey(args[q].rows[i]) = RowKey(args[p].rows[1])
        /\ Cardinality(WithKey(CanonOf(args[p].targetTable),
                               RowKey(args[p].rows[1]))) = 1

(***************************************************************************)
(* C4.  At most one Ingestion per sourceKey.                               *)
(***************************************************************************)
\* C4: in every reachable state, in the middle of ingestions and under any
\* interleaving of the mutations of concurrent actions, the ingestions table
\* holds at most one Ingestion per sourceKey.
C4_OneIngestionPerSourceKey ==
    \A i, j \in 1..Len(ingestions) :
        ingestions[i].sourceKey = ingestions[j].sourceKey => i = j

\* two actions are in the middle of ingesting the same sourceKey
C4_Witness ==
    \E p, q \in Procs :
        /\ p # q /\ Running(p) /\ Running(q)
        /\ args[p].sourceKey = args[q].sourceKey
        /\ Cardinality(IngestionsOf(args[p].sourceKey)) = 1

(***************************************************************************)
(* C5.  The Ingestion of a completed call.                                 *)
(***************************************************************************)
C5_ExactlyOne(p) == Cardinality(IngestionsOf(args[p].sourceKey)) = 1
C5_Fresh(p) ==
    \A i \in IngestionsOf(args[p].sourceKey) :
        /\ ingestions[i].capturedAt = args[p].capturedAt
        /\ ingestions[i].rowCount = Len(args[p].rows)
C5_Named(p) ==
    \A i \in IngestionsOf(args[p].sourceKey) :
        ingestions[i].reportName = args[p].reportName

\* C5 as stated: when an ingestReport call completes, exactly one Ingestion
\* exists for its sourceKey, with the call's reportName, capturedAt and number
\* of input rows.
C5_AsStated ==
    \A p \in Procs :
        Completed(p) => C5_ExactlyOne(p) /\ C5_Fresh(p) /\ C5_Named(p)

\* C5, amended: when an ingestReport call completes, exactly one Ingestion
\* exists for its sourceKey, with the call's capturedAt and number of input
\* rows, and with the call's reportName when no other ingestion of the same
\* sourceKey overlapped the call.
C5_IngestionOfCompletedCall ==
    \A p \in Procs :
        Completed(p) =>
            /\ C5_ExactlyOne(p) /\ C5_Fresh(p)
            /\ ~overlapped[p] => C5_Named(p)

\* a call for a sourceKey ingested before has completed, overlapped by no
\* ingestion of that sourceKey
C5_Witness ==
    \E p \in Procs :
        /\ Completed(p) /\ ~overlapped[p] /\ prep[p].replaced
        /\ Len(args[p].rows) = MaxRows
        /\ C5_ExactlyOne(p) /\ C5_Fresh(p) /\ C5_Named(p)

(***************************************************************************)
(* C6.  The ReportRows of a completed call.                                *)
(***************************************************************************)
\* the ReportRows that mirror the rows of the call a, owned by the Ingestion id
Mirror(a, id) ==
    [i \in 1..Len(a.rows) |->
        [ingestionId |-> id, reportName |-> a.reportName,
         rowIndex |-> a.rows[i].rowIndex, data |-> RowColumns(a.rows[i])]]

\* C6: when an ingestReport call completes and no other ingestion of the same
\* sourceKey overlapped it, the ReportRows owned by the Ingestion of that
\* sourceKey are exactly the input rows of the call (same rowIndex and data,
\* one ReportRow per input row); no ReportRow of the previous ingestion of
\* that sourceKey is left.
C6_ReportRowsMirrorInput ==
    \A p \in Procs :
        Completed(p) /\ ~overlapped[p] =>
            \A i \in IngestionsOf(args[p].sourceKey) :
                OwnedRows(ingestions[i]._id) = Mirror(args[p], ingestions[i]._id)

\* a call for a sourceKey ingested before has completed while a call for
\* another sourceKey was running
C6_Witness ==
    \E p \in Procs :
        /\ Completed(p) /\ ~overlapped[p] /\ ~alone[p] /\ prep[p].replaced
        /\ Len(args[p].rows) = MaxRows /\ KeyedCount(args[p].rows) = MaxRows
        /\ Len(OwnedRows(prep[p].ingestionId)) = MaxRows

(***************************************************************************)
(* C7.  Two calls in a row with different sourceKeys that share a key.     *)
(***************************************************************************)
\* p1 then p2 ran in a row for the same report and table under different
\* sourceKeys, and both sent a row with the uniqueKey k
C7_Case(p1, p2, k) ==
    /\ InARow(p1, p2)
    /\ args[p1].sourceKey # args[p2].sourceKey
    /\ args[p1].reportName = args[p2].reportName
    /\ args[p1].targetTable = args[p2].targetTable
    /\ Truthy(k)
    /\ \E i \in 1..Len(args[p1].rows) : RowKey(args[p1].rows[i]) = k
    /\ \E i \in 1..Len(args[p2].rows) : RowKey(args[p2].rows[i]) = k
C7_SharedKeys(p1, p2) ==
    {RowKey(args[p1].rows[i]) : i \in 1..Len(args[p1].rows)}
\* the record of k has the data (the same value for the same columns; an
\* unchanged record keeps the column order it was stored with), the capturedAt
\* and the Ingestion of the later call
C7_LastWriter(p2, k) ==
    LET table == CanonOf(args[p2].targetTable)
    IN  /\ Cardinality(WithKey(table, k)) = 1
        /\ \A e \in WithKey(table, k) :
             /\ SameContent(table[e].data,
                            RowColumns(LastWithKey(args[p2].rows, k)))
             /\ table[e].lastCapturedAt = args[p2].capturedAt
             /\ table[e].lastIngestionId = prep[p2].ingestionId
             /\ \A i \in IngestionsOf(args[p2].sourceKey) :
                    ingestions[i]._id = prep[p2].ingestionId
C7_FirstIs(p2, k, t) ==
    \A e \in WithKey(CanonOf(args[p2].targetTable), k) :
        CanonOf(args[p2].targetTable)[e].firstCapturedAt = t

\* C7 as stated: the shared record ends with the data of the later call,
\* firstCapturedAt of the earlier call, lastCapturedAt and lastIngestionId of
\* the later call.
C7_AsStated ==
    \A p1, p2 \in Procs : \A k \in C7_SharedKeys(p1, p2) :
        C7_Case(p1, p2, k) =>
            C7_LastWriter(p2, k) /\ C7_FirstIs(p2, k, args[p1].capturedAt)

\* C7, amended: the shared record ends with the data, lastCapturedAt and
\* lastIngestionId of the later call; its firstCapturedAt is the capturedAt of
\* the earlier call when the earlier call created the record, and is left as
\* stored when the record existed before the earlier call.
C7_LastWriterWins ==
    \A p1, p2 \in Procs : \A k \in C7_SharedKeys(p1, p2) :
        C7_Case(p1, p2, k) =>
            /\ C7_LastWriter(p2, k)
            /\ IF WithKey(pre[p1], k) = {}
               THEN C7_FirstIs(p2, k, args[p1].capturedAt)
               ELSE \A e \in WithKey(pre[p1], k) :
                        C7_FirstIs(p2, k, pre[p1][e].firstCapturedAt)

\* the earlier call created the record and the later call, captured at
\* another time, changed its data
C7_Witness ==
    \E p1, p2 \in Procs : \E k \in C7_SharedKeys(p1, p2) :
        /\ C7_Case(p1, p2, k)
        /\ WithKey(pre[p1], k) = {}
        /\ args[p1].capturedAt # args[p2].capturedAt
        /\ stats[p2].updated > 0
        /\ C7_FirstIs(p2, k, args[p1].capturedAt)

(***************************************************************************)
(* C8.  Natural-key report: a non-key column changes.                      *)
(***************************************************************************)
\* the key columns of "Referral Source - Appointments"
C8_KeyColumns == {"Location", "Patient ID", "Appt. date", "Appointment type", "Provider"}
\* the call of p has just re-ingested, alone, one row of the report
ReIngestsOneRow(p, reportName) ==
    /\ CompletedAlone(p)
    /\ args[p].reportName = reportName
    /\ args[p].targetTable \in TableNames
    /\ Len(args[p].rows) = 1
    /\ ScriptBuilt(reportName, args[p].rows[1])
\* the record at e was stored when the call of p began, with the key-column
\* values of the row of p and another value in one other column
C8_Case(p, e) ==
    /\ ReIngestsOneRow(p, Appointments)
    /\ e \in 1..Len(pre[p])
    /\ StoredByScript(Appointments, pre[p][e])
    /\ \A c \in C8_KeyColumns :
           Get(pre[p][e].data, c) = Get(RowColumns(args[p].rows[1]), c)
    /\ DiffersInOne(pre[p][e].data, RowColumns(args[p].rows[1]))

\* C8: for the natural-key report, re-ingesting a row with the key-column
\* values of a stored row and another value in one non-key column yields one
\* updated and zero inserted, and the data of the stored record becomes the
\* new row.
C8_NaturalKeyUpdates ==
    \A p \in Procs : \A e \in 1..Len(pre[p]) :
        C8_Case(p, e) =>
            /\ stats[p] = Stats(0, 1, 0)
            /\ Len(canon[args[p].targetTable]) = Len(pre[p])
            /\ canon[args[p].targetTable][e].uniqueKey = pre[p][e].uniqueKey
            /\ canon[args[p].targetTable][e].data = RowColumns(args[p].rows[1])

C8_Witness ==
    \E p \in Procs : \E e \in 1..Len(pre[p]) :
        /\ C8_Case(p, e)
        /\ stats[p] = Stats(0, 1, 0)
        /\ canon[args[p].targetTable][e].data # pre[p][e].data

(***************************************************************************)
(* C9.  Full-row report: a column changes.                                 *)
(***************************************************************************)
\* the record at e was stored when the call of p began and differs from the
\* row of p in one column; "Patient Recalls" has no natural-key columns
C9_Case(p, e) ==
    /\ ReIngestsOneRow(p, Recalls)
    /\ e \in 1..Len(pre[p])
    /\ StoredByScript(Recalls, pre[p][e])
    /\ DiffersInOne(pre[p][e].data, RowColumns(args[p].rows[1]))
\* one record is inserted and the record at e is as it was
C9_Inserted(p, e) ==
    /\ stats[p] = Stats(1, 0, 0)
    /\ Len(canon[args[p].targetTable]) = Len(pre[p]) + 1
    /\ canon[args[p].targetTable][e] = pre[p][e]
\* no record stored when the call of p began has the content of its row
C9_NotStored(p) ==
    \A e \in 1..Len(pre[p]) :
        ~SameContent(pre[p][e].data, RowColumns(args[p].rows[1]))

\* C9 as stated: for a report without natural-key columns, re-ingesting a row
\* that differs from a stored row in one column inserts exactly one canonical
\* record and leaves the stored record as it was.
C9_AsStated ==
    \A p \in Procs : \A e \in 1..Len(pre[p]) :
        C9_Case(p, e) => C9_Inserted(p, e)

\* C9, amended: the same, provided no stored record already has the content
\* of the re-ingested row.
C9_FullRowInserts ==
    \A p \in Procs : \A e \in 1..Len(pre[p]) :
        C9_Case(p, e) /\ C9_NotStored(p) => C9_Inserted(p, e)

C9_Witness ==
    \E p \in Procs : \E e \in 1..Len(pre[p]) :
        C9_Case(p, e) /\ C9_NotStored(p) /\ C9_Inserted(p, e)

(***************************************************************************)
(* C10.  The unchanged path of processRowsBatch.                           *)
(***************************************************************************)
\* the row of the step carries the key of the record at e, whose stored data
\* has the same key-sorted serialization as the row's
C10_Case(p, e) ==
    /\ OneRowStep(p)
    /\ Keyed(StepRow(p))
    /\ e \in WithKey(canon[args[p].targetTable], RowKey(StepRow(p)))
    /\ SameContent(canon[args[p].targetTable][e].data, RowColumns(StepRow(p)))

\* C10: when the uniqueKey of a row exists and the row's data is identical,
\* as key-sorted serialization, to the stored data, processRowsBatch leaves
\* the data and firstCapturedAt of the record unchanged and sets its
\* lastCapturedAt and lastIngestionId to the capturedAt and Ingestion of the
\* current call.
C10_UnchangedTouches ==
    [][\A p \in Procs : \A e \in 1..Len(CanonOf(args[p].targetTable)) :
         C10_Case(p, e) =>
            LET old == canon[args[p].targetTable][e]
                new == canon'[args[p].targetTable][e]
            IN  /\ new.data = old.data
                /\ new.firstCapturedAt = old.firstCapturedAt
                /\ new.lastCapturedAt = args[p].capturedAt
                /\ new.lastIngestionId = prep[p].ingestionId
                /\ \E i \in IngestionsOf(args[p].sourceKey) :
                       ingestions[i]._id = prep[p].ingestionId]_vars

\* a call has just touched a record whose stored data lists the columns in
\* another order and which was first captured at another time
C10_Witness ==
    \E p \in Procs : \E e \in 1..Len(pre[p]) :
        /\ CompletedAlone(p)
        /\ args[p].targetTable \in TableNames
        /\ Len(args[p].rows) = 1
        /\ stats[p] = Stats(0, 0, 1)
        /\ pre[p][e].uniqueKey = RowKey(args[p].rows[1])
        /\ pre[p][e].data # RowColumns(args[p].rows[1])
        /\ canon[args[p].targetTable][e].data = pre[p][e].data
        /\ canon[args[p].targetTable][e].lastCapturedAt = args[p].capturedAt
        /\ canon[args[p].targetTable][e].firstCapturedAt # args[p].capturedAt
        /\ canon[args[p].targetTable][e].lastIngestionId # pre[p][e].lastIngestionId

(***************************************************************************)
(* C11.  Canonical records are never removed.                              *)
(***************************************************************************)
\* C11: no ingestion operation removes a canonical record: a uniqueKey that
\* is in a canonical table is in it in every later state, also after a later
\* export of the same sourceKey no longer contains the row.
C11_NeverRemoved ==
    [][\A t \in TableNames : \A i \in 1..Len(canon[t]) :
           WithKey(canon'[t], canon[t][i].uniqueKey) # {}]_vars

\* a sourceKey has been ingested again, to completion, without the row of a
\* record that its Ingestion touched last; the record is still there
C11_Witness ==
    \E p \in Procs :
        /\ pc[p] = "done" /\ prep[p].replaced /\ ~overlapped[p]
        /\ \E i \in 1..Len(CanonOf(args[p].targetTable)) :
             LET d == CanonOf(args[p].targetTable)[i]
             IN  /\ d.lastIngestionId = prep[p].ingestionId
                 /\ \A j \in 1..Len(args[p].rows) :
                        RowKey(args[p].rows[j]) # d.uniqueKey


(***************************************************************************)
(* C12                                                                     *)
(***************************************************************************)
\* the chunk sizes compared: one row per chunk, every size up to the longest
\* batch, and the CHUNK_SIZE of the code, which takes a batch whole
ChunkSizes == (1..SeqMaxRows) \cup {200}
\* a call has just run until it returned or rejected
SeqReturned == calls' = calls + 1 /\ pc'[1] \in {"done", "failed"}
\* C12: from the same starting state and with the same arguments, ingestReport
\* leaves the same Ingestion rows, the same ReportRows, the same canonical
\* tables and the same returned stats (or the same rejection) whatever the
\* chunk size: 1, 2, 3, or 200 with the batch in one chunk; also when rows that
\* share a uniqueKey fall on different sides of a chunk boundary.
C12_ChunkSizeIndependent ==
    [][SeqReturned =>
         \A size \in ChunkSizes :
             LET m == ingestReportWith(DbNow, args'[1], size)
             IN  /\ m.pc = pc'[1]
                 /\ m.db.ingestions = ingestions'
                 /\ m.db.reportRows = reportRows'
                 /\ m.db.canon = canon'
                 /\ m.stats = stats'[1]]_vars
\* a call has returned whose three rows share one uniqueKey, with different
\* data in the first two: with one row per chunk they went to three mutations
C12_Witness ==
    /\ pc[1] = "done" /\ origin = <<>> /\ calls = 1
    /\ Len(args[1].rows) = 3 /\ chunkIdx[1] = 3
    /\ Keyed(args[1].rows[1])
    /\ RowKey(args[1].rows[1]) = RowKey(args[1].rows[2])
    /\ RowKey(args[1].rows[2]) = RowKey(args[1].rows[3])
    /\ RowColumns(args[1].rows[1]) # RowColumns(args[1].rows[2])
    /\ stats[1].updated >= 1

(***************************************************************************)
(* C15                                                                     *)
(***************************************************************************)
\* a call stopped after some of its mutations, was made again with the same
\* arguments and has returned
C15_Case == pc[1] = "done" /\ origin # <<>>
\* C15: when an ingestReport run stops after a prefix of its mutations and
\* ingestReport is run again to completion with the same arguments, the
\* Ingestion rows, the ReportRows and the canonical tables are those an
\* uninterrupted run from the original state leaves.
C15_RerunRecovers ==
    C15_Case =>
        LET u == ingestReportWith(origin[1], args[1], CHUNK_SIZE)
        IN  /\ u.pc = "done"
            /\ ingestions = u.db.ingestions
            /\ reportRows = u.db.reportRows
            /\ canon = u.db.canon
\* the stopped run had stored rows: the second run found their records, and
\* returns other stats than an uninterrupted run
C15_Witness ==
    /\ C15_Case
    /\ Len(args[1].rows) >= 2
    /\ stats[1] # ingestReportWith(origin[1], args[1], CHUNK_SIZE).stats
\* the run stopped in the clearRowsBatch loop of a sourceKey ingested before
C15_WitnessCleared ==
    /\ C15_Case /\ prep[1].replaced
    /\ origin[1].reportRows # <<>>
    /\ args[1].sourceKey = Seed.sourceKey

(***************************************************************************)
(* C13                                                                     *)
(***************************************************************************)
\* the keys the rows of a call carry
KeysOf(rows) == {RowKey(rows[i]) : i \in {j \in 1..Len(rows) : Keyed(rows[j])}}
\* two calls, the only ones run, with different sourceKeys, ran at the same
\* time and have both returned; both had a row with the key k
C13_Case(p, q, k) ==
    /\ p # q /\ calls = 2
    /\ pc[p] = "done" /\ pc[q] = "done"
    /\ ~alone[p] /\ ~alone[q]
    /\ args[p].sourceKey # args[q].sourceKey
    /\ k \in KeysOf(args[p].rows) \cap KeysOf(args[q].rows)
\* the keys of either call that no record had before the two calls
C13_AbsentBefore(p, q) ==
    {k \in KeysOf(args[p].rows) \cup KeysOf(args[q].rows) :
        WithKey(pre[p], k) = {} \/ WithKey(pre[q], k) = {}}
\* C13: when two calls with different sourceKeys run concurrently and both have
\* a row with the same uniqueKey, the table ends with one record for that key,
\* and a key that was absent beforehand is counted as inserted once over the two
\* calls: of the two rows that share it, exactly one is counted as inserted.
C13_OneRecordOneInsert ==
    \A p, q \in Procs : \A k \in KeysOf(args[p].rows) :
        C13_Case(p, q, k) =>
            /\ args[p].targetTable = args[q].targetTable
            /\ Cardinality(WithKey(CanonOf(args[p].targetTable), k)) = 1
            /\ stats[p].inserted + stats[q].inserted
                 = Cardinality(C13_AbsentBefore(p, q))
C13_Witness ==
    \E p, q \in Procs : \E k \in KeysOf(args[p].rows) :
        /\ C13_Case(p, q, k)
        /\ k \in C13_AbsentBefore(p, q)
        /\ chunkIdx[p] = 1 /\ chunkIdx[q] = 1
        /\ stats[p].inserted + stats[q].inserted = 1


(***************************************************************************)
(* C14                                                                     *)
(***************************************************************************)
\* the two calls, the only ones run, were for the same sourceKey and have both
\* returned
C14_Case(p, q) ==
    /\ p # q /\ calls = 2
    /\ pc[p] = "done" /\ pc[q] = "done"
    /\ args[p].sourceKey = args[q].sourceKey
\* the ReportRows of the sourceKey are the input rows of neither call, or the
\* Ingestion's rowCount is not the number of its ReportRows
C14_Broken(p, q) ==
    \E i \in IngestionsOf(args[p].sourceKey) :
        LET id == ingestions[i]._id
        IN  \/ /\ OwnedRows(id) # Mirror(args[p], id)
               /\ OwnedRows(id) # Mirror(args[q], id)
            \/ ingestions[i].rowCount # Len(OwnedRows(id))
\* C14: the contract depends on one writer per sourceKey: two calls for the
\* same sourceKey leave ReportRows that are the input of neither call, or a
\* rowCount that is not the number of ReportRows, only when their mutations
\* interleaved; C14_Witness is such an interleaving.
C14_BrokenOnlyByOverlap ==
    \A p, q \in Procs :
        C14_Case(p, q) /\ C14_Broken(p, q) => overlapped[p] /\ overlapped[q]
\* two calls for the same sourceKey interleaved and left the ReportRows of
\* the sourceKey broken
C14_Witness ==
    \E p, q \in Procs : C14_Case(p, q) /\ C14_Broken(p, q) /\ overlapped[p]
\* after two interleaved calls for a sourceKey all the rows of both calls are
\* stored and the rowCount is that of one call
C14_WitnessBoth ==
    \E p, q \in Procs :
        /\ C14_Case(p, q) /\ overlapped[p]
        /\ Len(args[p].rows) = 1 /\ Len(args[q].rows) = 1
        /\ \A i \in IngestionsOf(args[p].sourceKey) :
               /\ Len(OwnedRows(ingestions[i]._id)) = 2
               /\ ingestions[i].rowCount = 1


(***************************************************************************)
(* C16                                                                     *)
(***************************************************************************)
\* a string that is no decimal numeral
NotNumeric(s) == trim(s) = <<>> \/ \E i \in 1..Len(trim(s)) : ~IsDigit(trim(s)[i])
\* the step is a run of the script with a --capturedAt that is not numeric
C16_ScriptStep ==
    /\ calls' = calls + 1 /\ argv' # <<>>
    /\ argv'[1].capturedAt # Undefined
    /\ NotNumeric(argv'[1].capturedAt)
\* the step is a request to the action with a capturedAt that is no number
C16_RequestStep == calls' = calls + 1 /\ pc'[1] = "invalid"
\* C16: an ingestion request whose capturedAt is not numeric is rejected
\* before any write: no Ingestion row is created or changed, and no ReportRow
\* or canonical record is written.
C16_AsStated ==
    [][C16_ScriptStep \/ C16_RequestStep
         => /\ pc'[1] \in {"exit1", "invalid"}
            /\ UNCHANGED <<ingestions, reportRows, canon>>]_vars
\* the script was run with an empty --capturedAt and has stored an Ingestion
\* captured at 0
C16_Witness ==
    /\ argv # <<>> /\ pc[1] = "done"
    /\ argv[1].capturedAt = <<>>
    /\ \E i \in IngestionsOf(argv[1].source) : ingestions[i].capturedAt = 0
\* what the code does keep: a capturedAt that Number turns into NaN, as
\* "not-a-number", ends the script before it calls the action, and a string
\* sent to the action is rejected by its validator; neither writes
C16_NaNRejected ==
    [][\/ /\ calls' = calls + 1 /\ argv' # <<>>
          /\ argv'[1].capturedAt # Undefined
          /\ isNaN(Number(argv'[1].capturedAt))
       \/ C16_RequestStep
         => /\ pc'[1] \in {"exit1", "invalid"}
            /\ UNCHANGED <<ingestions, reportRows, canon>>]_vars
C16_WitnessRejected ==
    /\ argv # <<>> /\ pc[1] = "exit1" /\ argv[1].capturedAt = NotANumber

(***************************************************************************)
(* C17                                                                     *)
(***************************************************************************)
\* the call of p, the only one run, named a targetTable outside TABLE_CONFIG
\* and was rejected
C17_Case(p) ==
    /\ calls = 1 /\ pc[p] = "failed"
    /\ args[p].targetTable \notin TableNames
\* the database is as it was before the first call
C17_AsBefore ==
    \/ /\ ingestions = <<>>
       /\ reportRows = <<>>
       /\ canon = [t \in TableNames |-> <<>>]
    \/ /\ ingestions = SeedIngestions
       /\ reportRows = SeedBatch.reportRows
       /\ canon = [t \in TableNames |->
                     IF t = Seed.targetTable THEN SeedBatch.table ELSE <<>>]
\* C17: an ingestReport call whose targetTable is not one of the four known
\* tables fails before any write: after the failed call the ingestions, the
\* ReportRows (those of an earlier ingestion of the same sourceKey included)
\* and the canonical tables are as they were before the call.
C17_AsStated == \A p \in Procs : C17_Case(p) => C17_AsBefore
\* the rejected call has removed the ReportRows of the earlier ingestion of
\* its sourceKey and reset the Ingestion
C17_Witness ==
    \E p \in Procs :
        /\ C17_Case(p)
        /\ args[p].sourceKey = Seed.sourceKey
        /\ Len(ingestions) = 1 /\ ingestions[1].rowCount = 0
        /\ ingestions[1].reportName = args[p].reportName
        /\ reportRows = <<>>
        /\ canon[Seed.targetTable] = SeedBatch.table
\* what the code does keep: the rejected call changes no canonical table
C17_CanonUntouched ==
    \A p \in Procs :
        C17_Case(p) =>
            canon \in {[t \in TableNames |-> <<>>],
                       [t \in TableNames |->
                          IF t = Seed.targetTable THEN SeedBatch.table ELSE <<>>]}

(***************************************************************************)
(* C18                                                                     *)
(***************************************************************************)
\* the call of p named a targetTable outside TABLE_CONFIG and has ended, no
\* other call ran during it and none has run since
C18_Case(p) ==
    /\ args[p].targetTable \notin TableNames
    /\ pc[p] \in {"done", "failed"}
    /\ alone[p] /\ lastEnded = p
    /\ \A q \in Procs : ~Running(q)
\* C18: for every rows array, an ingestReport call whose targetTable is outside
\* the known set ends in an error, and no ReportRow created by that call is
\* stored.
C18_AsStated ==
    \A p \in Procs :
        C18_Case(p) =>
            /\ pc[p] = "failed"
            /\ OwnedRows(prep[p].ingestionId) = <<>>
\* a call with an unknown targetTable and no rows has returned its result
C18_Witness ==
    \E p \in Procs :
        /\ C18_Case(p) /\ pc[p] = "done"
        /\ args[p].rows = <<>> /\ stats[p] = ZeroStats
\* what the code does keep: the call stores no ReportRow, and is rejected when
\* it has a row
C18_NoRowStored ==
    \A p \in Procs :
        C18_Case(p) =>
            /\ OwnedRows(prep[p].ingestionId) = <<>>
            /\ args[p].rows # <<>> => pc[p] = "failed"

(***************************************************************************)
(* C19                                                                     *)
(***************************************************************************)
\* the call of p had an empty rows array
C19_Case(p) == Completed(p) /\ args[p].rows = <<>>
\* a step of the call of p
C19_StepOf(p) ==
    \/ pc'[p] # pc[p]
    \/ pc[p] = "clear" /\ alone'[p] /\ reportRows' # reportRows
C20_Points ==
    LET c == score[1].components
    IN  <<c.age.points, c.deviceAge.points, c.appointments.points,
          c.recency.points, c.benefit.points, c.accountValue.points>>
C20_Weights ==
    LET c == score[1].components
    IN  <<c.age.weight, c.deviceAge.weight, c.appointments.weight,
          c.recency.weight, c.benefit.weight, c.accountValue.weight>>
\* C20 as stated: calculatePhScore with all six inputs null returns total
\* 44.50, from the missing-value points 50, 50, 40, 30, 50, 40 weighted by 15,
\* 25, 15, 15, 10, 20 and divided by 100.
C20_AsStated ==
    scoreInputs = <<AllNull>> =>
        /\ score[1].total = 4450
        /\ C20_Points = <<50, 50, 40, 30, 50, 40>>
        /\ C20_Weights = <<15, 25, 15, 15, 10, 20>>
\* C20, amended: calculatePhScore with all six inputs null returns total 43.50:
\* the missing-value points 50, 50, 40, 30, 50, 40 weighted by 15, 25, 15, 15,
\* 10, 20, summed and divided by 100.
C20_AllNullTotal ==
    scoreInputs = <<AllNull>> =>
        /\ score[1].total = 4350
        /\ C20_Points = <<50, 50, 40, 30, 50, 40>>
        /\ C20_Weights = <<15, 25, 15, 15, 10, 20>>
        /\ score[1].total
             = 50 * 15 + 50 * 25 + 40 * 15 + 30 * 15 + 50 * 10 + 40 * 20
\* the score of a patient with no data has been calculated, the clock not
\* being at its start
C20_Witness == scoreInputs = <<AllNull>> /\ score # <<>> /\ now > 0


(***************************************************************************)
(* C21                                                                     *)
(***************************************************************************)
\* the table of the six signals: the points of a missing value, and the rule
C21_Age(x) ==
    IF x = Null THEN 50
    ELSE IF x.value < 80 THEN 100 ELSE IF x.value < 90 THEN 80 ELSE 50
C21_DeviceAge(x) ==
    IF x = Null THEN 50
    ELSE IF x.value <= 1 THEN 10 ELSE IF x.value <= 3 THEN 50
    ELSE IF x.value <= 5 THEN 90 ELSE 100
C21_Appointments(x) ==
    IF x = Null THEN 40
    ELSE IF x.value <= 0 THEN 20 ELSE IF x.value = 1 THEN 60
    ELSE IF x.value <= 3 THEN 90 ELSE 100
C21_DaysSince(days) ==
    IF days <= 180 THEN 100 ELSE IF days <= 365 THEN 60
    ELSE IF days <= 730 THEN 30 ELSE 10
C21_Benefit(x) ==
    IF x = Null THEN 50
    ELSE IF x.value >= 2000 THEN 100 ELSE IF x.value > 0 THEN 30 ELSE 50
C21_AccountValue(x) ==
    IF x = Null THEN 40
    ELSE IF x.value < 1000 THEN 20 ELSE IF x.value < 3000 THEN 60
    ELSE IF x.value < 6000 THEN 85 ELSE 100
\* a value that is a number (not missing, not NaN)
IsValue(x) == x # Null /\ ~isNaN(x)
\* the time of the last visit is a whole number of days before today
C21_WholeDays(x, clock) == (Midnight(clock) - x.value) % MS_PER_DAY = 0
\* the result of the call made in this step
Returned == score'[Len(score')]
\* C21: for every input of the domain and for null, each of the six step
\* functions returns the points of the table: age, deviceAge, appointments in
\* 24 months, days since the last completed visit (counted from today's
\* midnight), benefit, accountValue.
C21_StepFunctions ==
    [][score' # score =>
         LET in == scoreInputs'[1]
             c == Returned.components
         IN  /\ (in.patientAgeYears = Null \/ IsValue(in.patientAgeYears))
                  => c.age.points = C21_Age(in.patientAgeYears)
             /\ c.deviceAge.points = C21_DeviceAge(in.deviceAgeYears)
             /\ c.appointments.points = C21_Appointments(in.appointmentsCreated24M)
             /\ in.lastAppointmentCompletedMs = Null => c.recency.points = 30
             /\ (in.lastAppointmentCompletedMs # Null
                   /\ C21_WholeDays(in.lastAppointmentCompletedMs, now))
                  => c.recency.points =
                       C21_DaysSince((Midnight(now) - in.lastAppointmentCompletedMs.value)
                                       \div MS_PER_DAY)
             /\ c.benefit.points = C21_Benefit(in.thirdPartyBenefitAmount)
             /\ c.accountValue.points = C21_AccountValue(in.accountValue)]_vars
\* the score was calculated for a visit 180 days before day 0, one day or
\* more later: 181 days or more, 60 points
C21_Witness ==
    /\ score # <<>>
    /\ scoreInputs[1].lastAppointmentCompletedMs = DaysAgo(180)
    /\ score[1].components.recency.points = 60
\* the score was calculated for an account value on a threshold
C21_WitnessThreshold ==
    /\ score # <<>>
    /\ scoreInputs[1].accountValue = Num(6000)
    /\ score[1].components.accountValue.points = 100


(***************************************************************************)
(* C22                                                                     *)
(***************************************************************************)
ComponentNames ==
    {"age", "deviceAge", "appointments", "recency", "benefit", "accountValue"}
C22_Weights ==
    [age |-> 15, deviceAge |-> 25, appointments |-> 15, recency |-> 15,
     benefit |-> 10, accountValue |-> 20]
\* the six contributions of a score, summed (in hundredths)
C22_Sum(r) ==
    r.components.age.contribution + r.components.deviceAge.contribution
        + r.components.appointments.contribution
        + r.components.recency.contribution
        + r.components.benefit.contribution
        + r.components.accountValue.contribution
\* C22: for every combination of inputs, each component's points lie in
\* [0, 100], its contribution is points times weight divided by 100 (in
\* hundredths: points times weight), the weights are 15, 25, 15, 15, 10, 20
\* and sum to 100, and the total is the sum of the six contributions and lies
\* in [0, 100].
C22_Arithmetic ==
    \A i \in 1..Len(score) :
        /\ \A n \in ComponentNames :
               LET c == score[i].components[n]
               IN  /\ c.points \in 0..100
                   /\ c.weight = C22_Weights[n]
                   /\ c.contribution = c.points * c.weight
        /\ 15 + 25 + 15 + 15 + 10 + 20 = 100
        /\ score[i].total = C22_Sum(score[i])
        /\ score[i].total \in 0..(100 * 100)
\* the score of a patient with a value for every input: 96.00
C22_Witness ==
    /\ score # <<>>
    /\ \A g \in Signals : IsValue(scoreInputs[1][g])
    /\ score[1].total = 9600


(***************************************************************************)
(* C23                                                                     *)
(***************************************************************************)
\* the signals whose increase must not lower the total, and those whose
\* increase must not raise it; a later lastAppointmentCompletedMs is fewer days
\* since the last visit, so the total must not fall as it increases
C23_Rising ==
    {"deviceAgeYears", "appointmentsCreated24M", "thirdPartyBenefitAmount",
     "accountValue", "lastAppointmentCompletedMs"}
C23_Falling == {"patientAgeYears"}
\* the total of the call of this step, had the input g been v
C23_TotalWith(g, v) ==
    calculatePhScore([scoreInputs'[1] EXCEPT ![g] = v], now).total
\* the total of the call of this step does not move against the direction of
\* g when its input g, a value, is replaced by a greater value
C23_MonotonicIn(g) ==
    IsValue(scoreInputs'[1][g]) =>
        \A v \in SignalValues[g] :
            v.value > scoreInputs'[1][g].value =>
                /\ g \in C23_Rising => C23_TotalWith(g, v) >= Returned.total
                /\ g \in C23_Falling => C23_TotalWith(g, v) <= Returned.total
\* raising accountValue from 500 to 7000 raises the total
C23_Strict ==
    scoreInputs'[1].accountValue = Num(500) =>
        C23_TotalWith("accountValue", Num(7000)) > Returned.total
\* C23 as stated: with the other five inputs held fixed, the total never moves
\* against the documented direction as one input increases: non-decreasing in
\* deviceAgeYears, appointmentsCreated24M, thirdPartyBenefitAmount and
\* accountValue, non-increasing in patientAgeYears and in the days since the
\* last completed visit; raising accountValue from 500 to 7000 strictly
\* increases the total.
C23_AsStated ==
    [][score' # score =>
         /\ \A g \in Signals : C23_MonotonicIn(g)
         /\ C23_Strict]_vars
\* the benefit amount, where the total may fall: 0 or less gives 50 points, an
\* amount above 0 and below 2000 gives 30
C23_BenefitSteps ==
    LET b == scoreInputs'[1].thirdPartyBenefitAmount
    IN  IsValue(b) =>
            \A v \in SignalValues.thirdPartyBenefitAmount :
                (/\ v.value > b.value
                 /\ b.value > 0 \/ v.value <= 0 \/ v.value >= 2000)
                => C23_TotalWith("thirdPartyBenefitAmount", v) >= Returned.total
\* C23, amended: the total is non-decreasing in deviceAgeYears,
\* appointmentsCreated24M and accountValue, non-increasing in patientAgeYears
\* and in the days since the last completed visit, and non-decreasing in
\* thirdPartyBenefitAmount among amounts of 0 or less, among amounts above 0,
\* and from any amount to one of 2000 or more; raising accountValue from 500
\* to 7000 strictly increases the total.
C23_Monotonic ==
    [][score' # score =>
         /\ \A g \in Signals \ {"thirdPartyBenefitAmount"} : C23_MonotonicIn(g)
         /\ C23_BenefitSteps
         /\ C23_Strict]_vars
\* a score was calculated for an account value of 500 and a benefit of 500,
\* which is 2.00 less than the score with no benefit
C23_Witness ==
    /\ score # <<>>
    /\ scoreInputs[1].accountValue = Num(500)
    /\ scoreInputs[1].thirdPartyBenefitAmount = Num(500)
    /\ score[1].components.benefit.points = 30
    /\ \A g \in Signals : IsValue(scoreInputs[1][g])


(***************************************************************************)
(* C24                                                                     *)
(***************************************************************************)
\* C24: calculatePhScore is a pure function of its six inputs: two
\* invocations with equal inputs return equal total and components, whatever
\* other state differs between them, the current date included.
C24_AsStated == \A i, j \in 1..Len(score) : score[i] = score[j]
\* two invocations with the same inputs, on different days, returned
\* different totals
C24_Witness ==
    /\ Len(score) = 2
    /\ score[1].total # score[2].total
    /\ score[1].components.recency.points = 100
    /\ score[2].components.recency.points = 60
\* what the code does keep: the five components other than recency are the
\* same in both results, and so is everything when the time of the last
\* completed visit is missing
C24_PureButRecency ==
    \A i, j \in 1..Len(score) :
        /\ \A n \in ComponentNames \ {"recency"} :
               score[i].components[n] = score[j].components[n]
        /\ scoreInputs[1].lastAppointmentCompletedMs = Null => score[i] = score[j]


(***************************************************************************)
(* C25.  Natural keys.                                                     *)
(***************************************************************************)
\* the key columns REPORT_CONFIG declares for the appointments report
C25_KeyColumns == {"Location", "Patient ID", "Appt. date", "Appointment type", "Provider"}
\* the value of a column, a missing column counting as the empty string
C25_Value(record, col) == IF HasKey(record, col) THEN Get(record, col) ELSE <<>>
C25_SameLetter(c, d) == c = d \/ {c, d} \in {{"p", "P"}, {"q", "Q"}}
C25_EqualIgnoringCase(a, b) ==
    Len(a) = Len(b) /\ \A i \in 1..Len(a) : C25_SameLetter(a[i], b[i])
C25_SameKeyValues(r1, r2) ==
    \A col \in C25_KeyColumns :
        C25_EqualIgnoringCase(C25_Value(r1, col), C25_Value(r2, col))
C25_NoSeparator(record) ==
    \A col \in C25_KeyColumns :
        \A i \in 1..Len(C25_Value(record, col)) : C25_Value(record, col)[i] # "|"
\* a call of buildUniqueKey on two records of the natural-key report
C25_Called ==
    /\ fnArgs # <<>>
    /\ fnArgs[1].fn = "buildUniqueKey"
    /\ fnArgs[1].reportName = Appointments

\* C25 as stated: two rows of a natural-key report get the same key exactly
\* when their key columns are equal ignoring letter case, a missing column
\* counting as the empty string.
C25_AsStated ==
    C25_Called =>
        (fnResult[1] = fnResult[2]
            <=> C25_SameKeyValues(fnArgs[1].records[1], fnArgs[1].records[2]))

\* C25 (amended): rows whose key columns are equal ignoring letter case get
\* the same key whatever their other columns hold, and rows with the same key
\* have key columns equal ignoring letter case when no key value holds the
\* separator "|".
C25_KeyEquality ==
    C25_Called =>
        LET r1 == fnArgs[1].records[1]
            r2 == fnArgs[1].records[2]
        IN  /\ C25_SameKeyValues(r1, r2) => fnResult[1] = fnResult[2]
            /\ (fnResult[1] = fnResult[2] /\ C25_NoSeparator(r1) /\ C25_NoSeparator(r2))
                   => C25_SameKeyValues(r1, r2)

\* two rows that differ in letter case, in a missing column and in a non-key
\* column get the same key
C25_Witness ==
    /\ C25_Called
    /\ Get(fnArgs[1].records[1], "Location") = <<"P">>
    /\ Get(fnArgs[1].records[2], "Location") = <<"p">>
    /\ ~HasKey(fnArgs[1].records[1], "Patient ID")
    /\ Get(fnArgs[1].records[2], "Patient ID") = <<>>
    /\ Get(fnArgs[1].records[1], "Status") # Get(fnArgs[1].records[2], "Status")
    /\ fnResult[1] = fnResult[2]

(***************************************************************************)
(* C26.  The patient id of a row.                                          *)
(***************************************************************************)
\* the candidate columns of a table, in the order they are tried
C26_Order(tableName) ==
    IF tableName = "activePatients"
    THEN <<"Patient", "Patient ID", "Account Number", "ID", "Reference #">>
    ELSE <<"Patient ID", "Patient", "Account Number", "ID", "Reference #">>
\* the column holds something else than spaces
C26_NonBlank(record, col) ==
    HasKey(record, col) /\ \E i \in 1..Len(Get(record, col)) : Get(record, col)[i] # " "
\* t is v without its leading and trailing spaces
C26_TrimmedOf(t, v) ==
    /\ t # <<>>
    /\ t[1] # " "
    /\ t[Len(t)] # " "
    /\ \E a \in 0..Len(v) :
          /\ a + Len(t) <= Len(v)
          /\ SubSeq(v, a + 1, a + Len(t)) = t
          /\ \A i \in 1..Len(v) : (i <= a \/ i > a + Len(t)) => v[i] = " "
C26_Called == fnArgs # <<>> /\ fnArgs[1].fn = "extractPatientIdForTable"

\* C26: extractPatientIdForTable returns the trimmed value of the first
\* candidate column, in the order of the table, whose value is not empty after
\* trimming, and no patient id when there is none; activePatients tries
\* Patient before Patient ID, every other table Patient ID before Patient.
C26_FirstNonBlank ==
    C26_Called =>
        LET order == C26_Order(fnArgs[1].tableName)
            hits == {i \in 1..Len(order) : C26_NonBlank(fnArgs[1].record, order[i])}
        IN  IF hits = {} THEN fnResult[1] = Undefined
            ELSE C26_TrimmedOf(fnResult[1], Get(fnArgs[1].record, order[Min(hits)]))

\* an activePatients row takes its id from Patient, trimmed, though Patient ID
\* holds a value too
C26_Witness ==
    /\ C26_Called
    /\ fnArgs[1].tableName = "activePatients"
    /\ Get(fnArgs[1].record, "Patient") = <<" ", "p", " ">>
    /\ Get(fnArgs[1].record, "Patient ID") = <<"q">>
    /\ fnResult[1] = <<"p">>

(***************************************************************************)
(* C29.  The capture times of a canonical record.                          *)
(***************************************************************************)
C29_Ordered ==
    \A t \in TableNames : \A i \in 1..Len(canon[t]) :
        canon[t][i].firstCapturedAt <= canon[t][i].lastCapturedAt
C29_NeverDecreases ==
    [][\A t \in TableNames : \A i \in 1..Len(canon[t]) : \A j \in 1..Len(canon'[t]) :
          canon'[t][j].uniqueKey = canon[t][i].uniqueKey
              => canon'[t][j].lastCapturedAt >= canon[t][i].lastCapturedAt]_vars

\* C29 as stated: whatever capturedAt the callers supply, every canonical
\* record has firstCapturedAt <= lastCapturedAt, and the lastCapturedAt of a
\* record never decreases from one state to the next.
C29_AsStated == []C29_Ordered /\ C29_NeverDecreases

\* a record first captured at 2 and touched by a call whose capturedAt is 1
C29_Witness ==
    \E t \in TableNames : \E i \in 1..Len(canon[t]) :
        /\ canon[t][i].firstCapturedAt = 2
        /\ canon[t][i].lastCapturedAt = 1

(***************************************************************************)
(* C28.  References to an Ingestion.                                       *)
(***************************************************************************)
C28_Exists(id) == \E j \in 1..Len(ingestions) : ingestions[j]._id = id
C28_Referenced ==
    /\ \A i \in 1..Len(reportRows) : C28_Exists(reportRows[i].ingestionId)
    /\ \A t \in TableNames : \A i \in 1..Len(canon[t]) :
          C28_Exists(canon[t][i].lastIngestionId)
\* the ids of the Ingestions of a sourceKey
C28_IdsOf(s) == {ingestions[i]._id : i \in IngestionsOf(s)}
C28_SameId ==
    [][\A s \in SourceKeys : C28_IdsOf(s) # {} => C28_IdsOf(s)' = C28_IdsOf(s)]_vars

\* C28 as stated: the ingestionId of every ReportRow and the lastIngestionId
\* of every canonical record is the id of an Ingestion that exists, and
\* ingesting a sourceKey again keeps the id of its Ingestion.
C28_AsStated == []C28_Referenced /\ C28_SameId

\* the Ingestion of s1 was deleted and inserted again under another id, and a
\* canonical record still refers to the deleted one
C28_Witness ==
    /\ calls > 0
    /\ C28_IdsOf("s1") # {}
    /\ 1 \notin C28_IdsOf("s1")
    /\ \E i \in 1..Len(canon["appointments"]) :
          /\ canon["appointments"][i].lastIngestionId = 1
          /\ ~C28_Exists(1)

(***************************************************************************)
(* C27.  Send failures in a bulk send.                                     *)
(***************************************************************************)
\* the thread a message is on
C27_ThreadOf(m) == threads[CHOOSE i \in 1..Len(threads) : threads[i]._id = m.threadId]
\* the send to the k-th recipient failed
C27_SendFailed(k) ==
    /\ k <= Len(bulk.results)
    /\ bulk.results[k].error = SmsFailed
\* the failed outbound messages, with the error string, on a thread of the number
C27_FailedMessages(phoneNumber) ==
    {j \in 1..Len(messages) :
        /\ messages[j].direction = "outbound"
        /\ messages[j].status = "failed"
        /\ messages[j].error = SmsFailed
        /\ \E i \in 1..Len(threads) : threads[i]._id = messages[j].threadId
        /\ C27_ThreadOf(messages[j]).normalizedPhone = normalizePhone(phoneNumber)}
C27_Recorded ==
    \A k \in 1..Len(bulk.results) :
        C27_SendFailed(k) => C27_FailedMessages(bulk.results[k].phoneNumber) # {}
C27_AllAttempted ==
    /\ bulk.pc = "done" =>
          /\ Len(bulk.results) = Len(bulk.recipients)
          /\ \A k \in 1..Len(bulk.results) :
                bulk.results[k].phoneNumber = bulk.recipients[k].phoneNumber
    /\ \A k \in 1..Len(bulk.results) : C27_SendFailed(k) => bulk.pc # "failed"

\* C27 as stated: in sendBulkReminders a send failure for one recipient is
\* caught, recorded as an outbound message with status failed and the error
\* string on the thread of that recipient, and the recipients after it are
\* still attempted.
C27_AsStated == C27_Recorded /\ C27_AllAttempted

\* on Prisma the send to the first of two recipients failed, the second was
\* sent, and the call returned without a failed message in the table
C27_Witness ==
    /\ backend = "prisma"
    /\ bulk.pc = "done"
    /\ Len(bulk.results) = 2
    /\ bulk.results[1].status = "failed"
    /\ bulk.results[1].error = SmsFailed
    /\ bulk.results[2].status = "sent"
    /\ \A j \in 1..Len(messages) : messages[j].status # "failed"

\* the action of convex/messaging.ts does what C27 states
C27_ConvexRecords == backend = "convex" => C27_AsStated
\* the Prisma function attempts every recipient too
C27_PrismaAttemptsAll == backend = "prisma" => C27_AllAttempted
C27_ConvexWitness ==
    /\ backend = "convex"
    /\ bulk.pc = "done"
    /\ Len(bulk.results) = 2
    /\ C27_SendFailed(1)
    /\ bulk.results[2].status = "sent"
    /\ C27_FailedMessages(bulk.results[1].phoneNumber) # {}

(***************************************************************************)
(* C30.  One thread per number.                                            *)
(***************************************************************************)
C30_OneThreadPerPhone ==
    \A i, j \in 1..Len(threads) :
        threads[i].normalizedPhone = threads[j].normalizedPhone => i = j
C30_MessagesOnTheirThread ==
    \A j \in 1..Len(messages) :
        \E i \in 1..Len(threads) :
            /\ threads[i]._id = messages[j].threadId
            /\ threads[i].normalizedPhone = messages[j].normalizedPhone
\* no call of ensureThread or recordInboundMessage is under way
C30_CallsOver == \A c \in Callers : AtRest(c)

\* C30 as stated: after any interleaving of ensureThread and
\* recordInboundMessage calls there is at most one thread per normalized phone
\* number, and every message is on the thread of its normalized phone number.
C30_AsStated == C30_CallsOver => (C30_OneThreadPerPhone /\ C30_MessagesOnTheirThread)

\* two Prisma calls for two spellings of one number, both over, each left a
\* thread for it
C30_Witness ==
    /\ backend = "prisma"
    /\ bulk.pc = "idle"
    /\ \A c \in Callers : caller[c].pc = "done"
    /\ caller[1].a.phoneNumber = PhoneA
    /\ caller[2].a.phoneNumber = PhoneACountry
    /\ Len(threads) = 2
    /\ threads[1].normalizedPhone = threads[2].normalizedPhone

\* the mutations of convex/messaging.ts keep what C30 states, in every state
C30_ConvexOneThread ==
    backend = "convex" => (C30_OneThreadPerPhone /\ C30_MessagesOnTheirThread)
\* on Prisma every message is on a thread of its number
C30_PrismaMessages == C30_MessagesOnTheirThread
C30_ConvexWitness ==
    /\ backend = "convex"
    /\ \A c \in Callers : caller[c].pc = "done"
    /\ caller[1].fn = "ensureThread"
    /\ caller[2].fn = "recordInboundMessage"
    /\ caller[1].a.phoneNumber = PhoneA
    /\ caller[2].a.phoneNumber = PhoneACountry
    /\ Len(threads) = 1
    /\ Len(messages) = 1

====
